---- MODULE Spec2Model ----
(***************************************************************************)
(* Model of the pulse extraction engine of esp-pulser: the fixed-capacity  *)
(* ring buffer (circ.rs) and the adaptive-threshold streaming beat         *)
(* detector (pulse_sensor.rs).                                             *)
(***************************************************************************)
EXTENDS Integers, Sequences, FiniteSets, TLC

VARIABLES
    count,      \* COUNT, the capacity the Circ was instantiated with
    fill,       \* history: the value Circ::new filled the array with
    data,       \* Circ::data, a function 0..COUNT-1 -> value
    next,       \* Circ::next
    added,      \* history: every value passed to Circ::add, in call order
    iterating,  \* a CircIter borrowed from the buffer is alive
    idx,        \* CircIter::idx
    done,       \* CircIter::done
    yielded,    \* history: the values the live CircIter has returned
    exhausted,  \* the live CircIter has returned None
    ps,         \* the PulseSensor
    op,         \* the PulseSensor method the caller executed last
    pre,        \* history: the PulseSensor at the entry of that method
    ev,         \* history: the blocks of process_latest_sample that call ran
    ret,        \* the value the last saw_start_of_beat returned
    resets,     \* history: number of reset_variables calls
    changes,    \* history: number of level changes of the input
    clock,      \* history: ms of input processed since construction
    train,      \* the levels of the pulse train fed to the detector
    fresh,      \* a PulseSensor constructed when reset_variables was last called
    freshOn,    \* reset_variables has been called
    canon,      \* a PulseSensor constructed when the last timeout reset ran
    canonOn,    \* a timeout reset has run
    hist,       \* history: the beat starts declared and what followed the last
    wave,       \* the periodic test waveform being fed (period 0: none)
    beats,      \* history: beat starts declared while feeding the waveform
    lr,         \* the Linreg
    lrOp,       \* the Linreg function the caller executed last
    lrPre,      \* history: the Linreg the last update_from of an empty window
                \* started from (the Linreg itself when the last window was not empty)
    lrData,     \* history: the window passed to the last update_from
    lrRefit,    \* history: the last update_from, not the first one, found a
                \* cached length other than the length of its window
    kind,       \* which filter of filters.rs is in use: "hp", "lp" or "diff"
    hp,         \* the HighPassFilter
    lp,         \* the LowPassFilter
    df,         \* the Differentiator
    fArg,       \* history: the argument the filter was constructed with
    fOp,        \* the filter method the caller executed last
    fIn,        \* history: the argument of the last run / diff
    fOut,       \* the value the last run / diff returned
    fPre,       \* history: the filter at the entry of the last call
    fPrev,      \* history: the call before the last one, [op, arg]
    fCalls,     \* history: number of calls since construction
    fRuns,      \* history: number of run / diff calls since construction
    twin,       \* a filter constructed with fArg when reset_state was last called
    twinOn,     \* reset_state has been called
    twinOut,    \* the value the twin returned for the last run / diff
    hbData,     \* the window the HeartbeatItr borrows: data[i] is hbData[i + 1]
    hb,         \* the HeartbeatItr
    hbOut,      \* the value the last HeartbeatItr::next returned
    emitted,    \* history: the Heartbeats returned so far, in order
    hbDone,     \* HeartbeatItr::next has returned None
    mtx,        \* the owner of the samples mutex: "free", "main" or "sense"
    mainPc,     \* where the processing loop of main is
    sensePc,    \* where the loop of heart_sensing_task is
    chan,       \* heart_data_channel: the detector's copy of the samples
    snap,       \* history: the values added when main last locked the mutex
    data_to_send, \* the u8 behind the data_to_send mutex
    sent,       \* history: the last pass of main over lines 202-222 sent a
                \* HeartRate packet: <<number of samples added when the window
                \* it was computed from was locked, number of the sample whose
                \* arrival last set data_to_send>>; <<>> when it sent none
    holder,     \* for each shared mutex of main.rs, the task holding it or "none"
    lockPc,     \* for each task of main.rs, the next lock operation of its loop
    otaPc,      \* where command 1 of tcp_receiver_task is: "idle", in the
                \* "loop" of simple_download_and_update_firmware, "after" it,
                \* "returned" to the handler, or ended in "panic" or "restart"
    body,       \* the bytes the HTTP response has still to deliver
    file_size,  \* the content length the response declared
    total_read_len, \* the bytes read so far
    got_info,   \* the firmware info has been checked
    dl_result,  \* the value the loop broke with: "none", "Ok" or "Err"
    written,    \* history: the bytes passed to work.write that it accepted
    work,       \* the EspOtaUpdate: "none", "open", "aborted", "completed",
                \* or "failed" when abort or complete returned an error
    otaRet,     \* the value the function returned: "none", "Ok" or "Err"
    otaReads    \* history: the parity of the number of response.read calls

vars == <<count, fill, data, next, added, iterating, idx, done, yielded, exhausted,
          ps, op, pre, ev, ret, resets, changes, clock, train, fresh, freshOn, canon, canonOn,
          hist,
          wave, beats, lr, lrOp, lrPre, lrData, lrRefit,
          kind, hp, lp, df, fArg, fOp, fIn, fOut, fPre, fPrev, fCalls, fRuns,
          twin, twinOn, twinOut, hbData, hb, hbOut, emitted, hbDone,
          mtx, mainPc, sensePc, chan, snap, data_to_send, sent,
          holder, lockPc,
          otaPc, body, file_size, total_read_len, got_info, dl_result, written,
          work, otaRet, otaReads>>

circVars == <<count, fill, data, next, added, iterating, idx, done, yielded, exhausted>>

sensorVars == <<ps, op, pre, ev, ret, resets, changes, clock, train, fresh, freshOn, canon,
                canonOn, hist>>

waveVars == <<wave, beats>>

linVars == <<lr, lrOp, lrPre, lrData, lrRefit>>

filterVars == <<kind, hp, lp, df, fArg, fOp, fIn, fOut, fPre, fPrev, fCalls, fRuns,
                twin, twinOn, twinOut>>

beatVars == <<hbData, hb, hbOut, emitted, hbDone>>

mainVars == <<mtx, mainPc, sensePc, chan, snap, data_to_send, sent>>

lockVars == <<holder, lockPc>>

otaVars == <<otaPc, body, file_size, total_read_len, got_info, dl_result, written,
             work, otaRet, otaReads>>

(***************************************************************************)
(* Bounds of the model.                                                    *)
(***************************************************************************)
\* largest capacity COUNT of the ring buffers under check
CircN == 3

\* number of Circ::add calls explored
MaxAdds == 5

\* values stored in the ring buffer
CircVals == 0..2

\* ms of input explored
MaxTime == 3950

\* number of reset_variables calls explored
MaxResets == 1

\* ms of input explored where reset_variables is called
MaxResetTime == 2000

\* ms of the periodic waveform explored
MaxWaveTime == 4000

\* number of level changes of the input explored
MaxChanges == 8

\* ms of input explored around the wrap of sample_counter
MaxWrapTime == 1400

\* FIRMWARE_DOWNLOAD_CHUNK_SIZE, FIRMWARE_MIN_SIZE and FIRMWARE_MAX_SIZE of
\* ota.rs in the unit the download is counted in
OtaChunk == 2

OtaMinSize == 1

OtaMaxSize == 4

\* longest window N scanned by HeartbeatItr
MaxN == 7

\* number of calls made on a filter
MaxCalls == 4

\* the sample values fed to the filters
FilterVals == {-1, 0, 2}

\* longest window passed to Linreg::update_from
MaxWin == 4

\* values of n (ms since the last beat) at which the pulse train may switch
SwitchTimes == {2, 200, 252, 754, 2500, 2502}

(***************************************************************************)
(* Integer widths.                                                         *)
(***************************************************************************)
U16 == 65536

(***************************************************************************)
(* circ.rs                                                                 *)
(***************************************************************************)
\* wrap_next wrapping one slot early
wrap_next_early(n) ==
    LET n1 == n + 1
    IN  IF n1 >= count - 1 THEN 0 ELSE n1

wrap_next(n) ==
    LET n1 == n + 1
    IN  IF n1 >= count THEN 0 ELSE n1

\* Circ::<T, COUNT>::new(zero)
CircNew(COUNT, zero) ==
    /\ count = COUNT
    /\ fill = zero
    /\ data = [i \in 0..(COUNT - 1) |-> zero]
    /\ next = 0
    /\ added = <<>>
    /\ iterating = FALSE
    /\ idx = 0
    /\ done = FALSE
    /\ yielded = <<>>
    /\ exhausted = FALSE

\* Circ::add storing the sample one slot ahead of the cursor
CircAdd_writes_ahead(s) ==
    /\ ~iterating
    /\ Len(added) < MaxAdds
    /\ data' = [data EXCEPT ![wrap_next(next)] = s]
    /\ next' = wrap_next(next)
    /\ added' = Append(added, s)
    /\ UNCHANGED <<count, fill, iterating, idx, done, yielded, exhausted>>

\* Circ::add(s); needs &mut self, so no iterator is alive
CircAdd(s) ==
    /\ ~iterating
    /\ Len(added) < MaxAdds
    /\ data' = [data EXCEPT ![next] = s]
    /\ next' = wrap_next(next)
    /\ added' = Append(added, s)
    /\ UNCHANGED <<count, fill, iterating, idx, done, yielded, exhausted>>

\* Circ::iter starting at slot 0 instead of the write cursor
CircIterNew_from_zero ==
    /\ ~iterating
    /\ iterating' = TRUE
    /\ idx' = 0
    /\ done' = FALSE
    /\ yielded' = <<>>
    /\ exhausted' = FALSE
    /\ UNCHANGED <<count, fill, data, next, added>>

\* Circ::iter() / IntoIterator::into_iter()
CircIterNew ==
    /\ ~iterating
    /\ iterating' = TRUE
    /\ idx' = next
    /\ done' = FALSE
    /\ yielded' = <<>>
    /\ exhausted' = FALSE
    /\ UNCHANGED <<count, fill, data, next, added>>

\* CircIter::next() returning Some(res)
CircIterNextSome ==
    /\ iterating
    /\ ~done
    /\ yielded' = Append(yielded, data[idx])
    /\ idx' = wrap_next(idx)
    /\ done' = (wrap_next(idx) = next)
    /\ UNCHANGED <<count, fill, data, next, added, iterating, exhausted>>

\* CircIter::next() returning None
CircIterNextNone ==
    /\ iterating
    /\ done
    /\ ~exhausted
    /\ exhausted' = TRUE
    /\ UNCHANGED <<count, fill, data, next, added, iterating, idx, done, yielded>>

\* the iterator goes out of scope and releases the borrow
CircIterDrop ==
    /\ iterating
    /\ iterating' = FALSE
    /\ UNCHANGED <<count, fill, data, next, added, idx, done, yielded, exhausted>>

(***************************************************************************)
(* pulse_sensor.rs                                                         *)
(***************************************************************************)
ESP32_ADC_RESOLUTION == 4095

\* PulseSensor::new()
PulseSensorNew ==
    [ bpm |-> 0,
      signal |-> 0,
      ibi |-> 750,
      pulse |-> FALSE,
      qs |-> FALSE,
      thresh_setting |-> (ESP32_ADC_RESOLUTION \div 10) * 6,
      amp |-> ESP32_ADC_RESOLUTION \div 10,
      last_beat_time |-> 0,
      sample_interval_ms |-> 2,
      rate |-> [i \in 0..9 |-> 0],
      sample_counter |-> 0,
      n |-> 0,
      p |-> ESP32_ADC_RESOLUTION \div 2,
      t |-> ESP32_ADC_RESOLUTION \div 2,
      thresh |-> (ESP32_ADC_RESOLUTION \div 10) * 6,
      first_beat |-> TRUE,
      second_beat |-> FALSE ]

\* reset_variables that does not re-arm the first-beat seeding
reset_variables_keeps_seeding(self) ==
    [self EXCEPT !.qs = FALSE,
                 !.bpm = 0,
                 !.ibi = 750,
                 !.pulse = FALSE,
                 !.sample_counter = 0,
                 !.last_beat_time = 0,
                 !.p = ESP32_ADC_RESOLUTION \div 2,
                 !.t = ESP32_ADC_RESOLUTION \div 2,
                 !.thresh = self.thresh_setting,
                 !.amp = ESP32_ADC_RESOLUTION \div 10]

\* PulseSensor::reset_variables
reset_variables(self) ==
    [self EXCEPT !.qs = FALSE,
                 !.bpm = 0,
                 !.ibi = 750,
                 !.pulse = FALSE,
                 !.sample_counter = 0,
                 !.last_beat_time = 0,
                 !.p = ESP32_ADC_RESOLUTION \div 2,
                 !.t = ESP32_ADC_RESOLUTION \div 2,
                 !.thresh = self.thresh_setting,
                 !.amp = ESP32_ADC_RESOLUTION \div 10,
                 !.first_beat = TRUE,
                 !.second_beat = FALSE]

\* PulseSensor::get_beats_per_minute
get_beats_per_minute(self) == self.bpm

\* PulseSensor::saw_start_of_beat: the state it leaves
saw_start_of_beat(self) == [self EXCEPT !.qs = FALSE]

\* PulseSensor::read_next_sample
read_next_sample(self, sample) == [self EXCEPT !.signal = sample]

\* process_latest_sample, lines 126-127: advance the clock, time since last beat.
\* A u32 field holds an integer that stands for its residue modulo 2^32, a
\* negative k for 2^32 + k, so that the sum and the difference are those of
\* wrapping u32 arithmetic; the cast of the difference to u16 truncates.
AdvanceClock(self) ==
    LET sc == self.sample_counter + self.sample_interval_ms
    IN  [self EXCEPT !.sample_counter = sc,
                     !.n = (sc - self.last_beat_time) % U16]

\* the dicrotic-noise gate: n > (ibi / 5) * 3 in u16 arithmetic
PastDicroticWindow(self) == self.n > (self.ibi \div 5) * 3

\* UpdateTrough without the dicrotic-noise gate
UpdateTrough_no_gate(self) ==
    IF self.signal < self.thresh /\ self.signal < self.t
    THEN [self EXCEPT !.t = self.signal]
    ELSE self

\* lines 130-136: refine the trough
UpdateTrough(self) ==
    IF self.signal < self.thresh /\ PastDicroticWindow(self) /\ self.signal < self.t
    THEN [self EXCEPT !.t = self.signal]
    ELSE self

\* lines 138-141: refine the peak
UpdatePeak(self) ==
    IF self.signal > self.thresh /\ self.signal > self.p
    THEN [self EXCEPT !.p = self.signal]
    ELSE self

\* BeatStartCond without the refractory test n > 250
BeatStartCond_no_refractory(self) ==
    /\ self.signal > self.thresh
    /\ ~self.pulse
    /\ PastDicroticWindow(self)

\* BeatStartCond without the test of the pulse flag
BeatStartCond_no_hysteresis(self) ==
    /\ self.n > 250
    /\ self.signal > self.thresh
    /\ PastDicroticWindow(self)

\* lines 143-145: the condition under which a beat start is declared
BeatStartCond(self) ==
    /\ self.n > 250
    /\ self.signal > self.thresh
    /\ ~self.pulse
    /\ PastDicroticWindow(self)

\* lines 146-148
MarkBeat(self) ==
    [self EXCEPT !.pulse = TRUE,
                 !.ibi = self.n,
                 !.last_beat_time = self.sample_counter]

\* SeedRate clearing the flag but leaving the rate array as it is
SeedRate_no_seed(self) ==
    IF self.second_beat
    THEN [self EXCEPT !.second_beat = FALSE]
    ELSE self

\* lines 150-157: on the second beat seed the whole rate array
SeedRate(self) ==
    IF self.second_beat
    THEN [self EXCEPT !.second_beat = FALSE,
                      !.rate = [i \in 0..9 |-> self.ibi]]
    ELSE self

\* ShiftRate overwriting the newest slot without shifting the others
ShiftRate_no_shift(self) ==
    [self EXCEPT !.rate = [self.rate EXCEPT ![9] = self.ibi]]

\* lines 166-169: shift the rate array and append the latest IBI
ShiftRate(self) ==
    [self EXCEPT !.rate = [i \in 0..9 |-> IF i < 9 THEN self.rate[i + 1]
                                                  ELSE self.ibi]]

RECURSIVE SumRate(_, _)
\* self.rate.iter().sum::<u16>() over slots i..9
SumRate(rate, i) ==
    IF i > 9 THEN 0 ELSE (rate[i] + SumRate(rate, i + 1)) % U16

\* lines 172-174: average the last 10 IBI values, derive the BPM
ComputeBpm(self) ==
    LET running_total == SumRate(self.rate, 0) \div 10
    IN  [self EXCEPT !.bpm = 60000 \div running_total,
                     !.qs = TRUE]

\* EndPulse re-centring the threshold before taking the amplitude
EndPulse_amp_last(self) ==
    LET th == ((self.p + self.t) % U16) \div 2
    IN  [self EXCEPT !.pulse = FALSE,
                     !.amp = 0,
                     !.thresh = th,
                     !.p = th,
                     !.t = th]

\* lines 180-184
EndPulse(self) ==
    LET th == ((self.p + self.t) % U16) \div 2
    IN  [self EXCEPT !.pulse = FALSE,
                     !.amp = (self.p - self.t) % U16,
                     !.thresh = th,
                     !.p = th,
                     !.t = th]

\* Timeout leaving the amplitude of the last pulse in place
Timeout_keeps_amp(self) ==
    [self EXCEPT !.thresh = self.thresh_setting,
                 !.p = ESP32_ADC_RESOLUTION \div 2,
                 !.t = ESP32_ADC_RESOLUTION \div 2,
                 !.last_beat_time = self.sample_counter,
                 !.first_beat = TRUE,
                 !.second_beat = FALSE,
                 !.qs = FALSE,
                 !.bpm = 0,
                 !.ibi = 750,
                 !.pulse = FALSE]

\* Timeout leaving the reported rate in place
Timeout_keeps_bpm(self) ==
    [self EXCEPT !.thresh = self.thresh_setting,
                 !.p = ESP32_ADC_RESOLUTION \div 2,
                 !.t = ESP32_ADC_RESOLUTION \div 2,
                 !.last_beat_time = self.sample_counter,
                 !.first_beat = TRUE,
                 !.second_beat = FALSE,
                 !.qs = FALSE,
                 !.ibi = 750,
                 !.pulse = FALSE,
                 !.amp = ESP32_ADC_RESOLUTION \div 10]

\* lines 189-199
Timeout(self) ==
    [self EXCEPT !.thresh = self.thresh_setting,
                 !.p = ESP32_ADC_RESOLUTION \div 2,
                 !.t = ESP32_ADC_RESOLUTION \div 2,
                 !.last_beat_time = self.sample_counter,
                 !.first_beat = TRUE,
                 !.second_beat = FALSE,
                 !.qs = FALSE,
                 !.bpm = 0,
                 !.ibi = 750,
                 !.pulse = FALSE,
                 !.amp = ESP32_ADC_RESOLUTION \div 10]

\* the blocks a call of process_latest_sample runs, none yet
NoEvents ==
    [beat |-> FALSE, early |-> FALSE, computed |-> FALSE,
     ended |-> FALSE, timeout |-> FALSE]

\* PulseSensor::process_latest_sample: the final state st and the blocks run
ProcessTrace(self) ==
    LET s1 == AdvanceClock(self)
        s2 == UpdateTrough(s1)
        s3 == UpdatePeak(s2)
        beat == BeatStartCond(s3)
        s4 == IF beat THEN SeedRate(MarkBeat(s3)) ELSE s3
        early == beat /\ s4.first_beat
        s5 == IF beat /\ ~early THEN ComputeBpm(ShiftRate(s4)) ELSE s4
        \* line 178: the beat is over
        ended == s5.signal < s5.thresh /\ s5.pulse
        s6 == IF ended THEN EndPulse(s5) ELSE s5
        \* line 187
        timeout == s6.n > 2500
        s7 == IF timeout THEN Timeout(s6) ELSE s6
    IN  IF early
        \* lines 159-163: the state the first beat returns early with
        THEN [st |-> [s4 EXCEPT !.first_beat = FALSE, !.second_beat = TRUE],
              ev |-> [NoEvents EXCEPT !.beat = TRUE, !.early = TRUE]]
        ELSE [st |-> s7,
              ev |-> [beat |-> beat, early |-> FALSE, computed |-> beat,
                      ended |-> ended, timeout |-> timeout]]

process_latest_sample(self) == ProcessTrace(self).st

(***************************************************************************)
(* The caller of the detector.  Every sample period it hands the new ADC   *)
(* reading to read_next_sample and runs process_latest_sample; between two *)
(* samples it may poll saw_start_of_beat or call reset_variables.          *)
(***************************************************************************)
\* what followed a beat start: nothing yet
NoneSince == [ended |-> FALSE, timeout |-> FALSE, reset |-> FALSE]

\* no beat start declared yet
NoHistory ==
    [starts |-> 0, at |-> 0, close |-> FALSE, since |-> NoneSince,
     between |-> NoneSince]

\* the history after a call of process_latest_sample that ran the blocks e
\* and returned at time now: starts counts the beat starts (up to 2), at is
\* the time of the last one, close tells the last two were at most 250 ms
\* apart, since tells which of pulse end, timeout and reset_variables have
\* happened after the last one, between which happened between the last two
HistoryAfter(h, e, now) ==
    IF e.beat
    THEN [starts |-> IF h.starts = 0 THEN 1 ELSE 2,
          at |-> now,
          close |-> h.starts > 0 /\ now - h.at <= 250,
          since |-> [ended |-> e.ended, timeout |-> e.timeout, reset |-> FALSE],
          between |-> h.since]
    ELSE [h EXCEPT !.since.ended = @ \/ e.ended,
                   !.since.timeout = @ \/ e.timeout]

\* the n the next process_latest_sample will compute
NextN(self) == self.sample_counter + self.sample_interval_ms - self.last_beat_time

\* The input is a two-level pulse train: it holds its level, or switches
\* when the coming n is one of SwitchTimes; changes' counts the switches.
InputChange(s) ==
    /\ s \in {train.lo, train.hi}
    /\ \/ s = ps.signal /\ changes' = changes
       \/ /\ s # ps.signal
          /\ NextN(ps) \in SwitchTimes
          /\ changes < MaxChanges
          /\ changes' = changes + 1

\* read_next_sample(s); process_latest_sample()
Sample(s, horizon) ==
    /\ clock + ps.sample_interval_ms <= horizon
    /\ InputChange(s)
    /\ clock' = clock + ps.sample_interval_ms
    /\ pre' = ps
    /\ ps' = process_latest_sample(read_next_sample(ps, s))
    /\ ev' = ProcessTrace(read_next_sample(ps, s)).ev
    /\ fresh' = IF freshOn THEN process_latest_sample(read_next_sample(fresh, s))
                           ELSE fresh
    /\ IF ProcessTrace(read_next_sample(ps, s)).ev.timeout
       THEN canon' = read_next_sample(PulseSensorNew, s) /\ canonOn' = TRUE
       ELSE /\ canon' = IF canonOn
                        THEN process_latest_sample(read_next_sample(canon, s))
                        ELSE canon
            /\ canonOn' = canonOn
    /\ hist' = HistoryAfter(hist, ev', clock')
    /\ op' = "sample"
    /\ UNCHANGED <<ret, resets, freshOn, train>>

\* saw_start_of_beat(), polled right after a sample that declared a beat
SawStartOfBeat ==
    /\ op = "sample"
    /\ ev.beat
    /\ pre' = ps
    /\ ret' = ps.qs
    /\ ps' = saw_start_of_beat(ps)
    /\ fresh' = IF freshOn THEN saw_start_of_beat(fresh) ELSE fresh
    /\ canon' = IF canonOn THEN saw_start_of_beat(canon) ELSE canon
    /\ op' = "saw"
    /\ UNCHANGED <<ev, resets, changes, clock, train, freshOn, canonOn, hist>>

\* reset_variables(), called at one of the instants the input may switch at
ResetVariables ==
    /\ op \in {"sample", "saw"}
    /\ NextN(ps) \in SwitchTimes
    /\ resets < MaxResets
    /\ resets' = resets + 1
    /\ pre' = ps
    /\ ps' = reset_variables(ps)
    /\ fresh' = PulseSensorNew
    /\ freshOn' = TRUE
    /\ canon' = IF canonOn THEN reset_variables(canon) ELSE canon
    /\ hist' = [hist EXCEPT !.since.reset = TRUE]
    /\ op' = "reset"
    /\ UNCHANGED <<ev, ret, changes, clock, train, canonOn>>

SensorInit ==
    /\ ps = PulseSensorNew
    /\ op = "new"
    /\ pre = PulseSensorNew
    /\ ev = NoEvents
    /\ ret = FALSE
    /\ resets = 0
    /\ changes = 0
    /\ clock = 0
    /\ fresh = PulseSensorNew
    /\ freshOn = FALSE
    /\ canon = PulseSensorNew
    /\ canonOn = FALSE
    /\ hist = NoHistory

\* line 126 in a build with overflow checks: sample_counter += 2 panics when
\* the sum passes 2^32
SamplePanic ==
    /\ op # "panic"
    /\ ps.sample_counter < 0
    /\ ps.sample_counter + ps.sample_interval_ms >= 0
    /\ op' = "panic"
    /\ UNCHANGED <<ps, pre, ev, ret, resets, changes, clock, train, fresh, freshOn,
                   canon, canonOn, hist>>

\* The detector 400 ms before sample_counter reaches 2^32, never reset and
\* fed the level 1000 since construction: it has timed out every 2502 ms, the
\* last time 1170 ms ago.  clock counts from this state on.
WrapInit ==
    /\ ps = [PulseSensorNew EXCEPT !.signal = 1000,
                                   !.t = 1000,
                                   !.n = 1170,
                                   !.sample_counter = -400,
                                   !.last_beat_time = -1570]
    /\ op = "sample"
    /\ pre = [PulseSensorNew EXCEPT !.signal = 1000,
                                    !.t = 1000,
                                    !.n = 1168,
                                    !.sample_counter = -402,
                                    !.last_beat_time = -1570]
    /\ ev = NoEvents
    /\ ret = FALSE
    /\ resets = 0
    /\ changes = 0
    /\ clock = 0
    /\ fresh = PulseSensorNew
    /\ freshOn = FALSE
    /\ canon = PulseSensorNew
    /\ canonOn = FALSE
    /\ hist = NoHistory

\* A constant input: the detector is freshly constructed, or has reported a
\* rate (beat starts at n = 452 and n = 272 of a 3000 / 1000 pulse train,
\* which leave 272 in every slot of rate) and has been reset by its caller
\* 98 ms after the second beat start.
ConstInit ==
    /\ \E level \in {0, 1000, 2453, 2454, 2455, 3000, 4095, 65535} :
          train = [lo |-> level, hi |-> level]
    /\ \/ ps = PulseSensorNew /\ op = "new"
       \/ /\ ps = reset_variables([PulseSensorNew EXCEPT
                                        !.rate = [i \in 0..9 |-> 272],
                                        !.signal = 3000,
                                        !.n = 98])
          /\ op = "reset"
    /\ pre = PulseSensorNew
    /\ ev = NoEvents
    /\ ret = FALSE
    /\ resets = 0
    /\ changes = 0
    /\ clock = 0
    /\ fresh = PulseSensorNew
    /\ freshOn = FALSE
    /\ canon = PulseSensorNew
    /\ canonOn = FALSE
    /\ hist = NoHistory

(***************************************************************************)
(* The detector fed a periodic waveform: a rectangular pulse of wave.high  *)
(* ms every wave.period ms, sampled every sample_interval_ms, wave.phase   *)
(* ms into its cycle when the detector is constructed.                     *)
(***************************************************************************)
\* read_next_sample(waveform now); process_latest_sample()
WaveSample ==
    /\ clock + ps.sample_interval_ms <= MaxWaveTime
    /\ LET \* the level of the waveform at the time of the sample (ms since
           \* construction)
           t == ps.sample_counter + ps.sample_interval_ms
           s == IF (t + wave.phase) % wave.period < wave.high
                THEN train.hi ELSE train.lo
       IN  /\ pre' = ps
           /\ ps' = process_latest_sample(read_next_sample(ps, s))
           /\ ev' = ProcessTrace(read_next_sample(ps, s)).ev
           /\ beats' = IF ProcessTrace(read_next_sample(ps, s)).ev.beat
                       THEN beats + 1 ELSE beats
    /\ clock' = clock + ps.sample_interval_ms
    /\ hist' = HistoryAfter(hist, ev', clock')
    /\ op' = "sample"
    /\ UNCHANGED <<ret, resets, changes, train, fresh, freshOn, canon, canonOn,
                   wave>>

\* no waveform is being fed
WaveIdle == wave = [period |-> 0, high |-> 0, phase |-> 0] /\ beats = 0

(***************************************************************************)
(* linreg.rs.  An f32 is modelled by the exact rational it stands for, a   *)
(* record [num, den] in lowest terms with den > 0; den = 0 stands for the  *)
(* result of a division by 0.0 (NaN or an infinity) and of any operation   *)
(* on such a result.                                                       *)
(***************************************************************************)
RECURSIVE GCD(_, _)
GCD(a, b) == IF b = 0 THEN a ELSE GCD(b, a % b)

\* the f32 n / d
Frac(n, d) ==
    IF d = 0
    THEN [num |-> 0, den |-> 0]
    ELSE LET g == GCD(IF n < 0 THEN -n ELSE n, IF d < 0 THEN -d ELSE d)
             sg == IF d < 0 THEN -1 ELSE 1
         IN  [num |-> sg * (n \div g), den |-> sg * (d \div g)]

\* the f32 of the integer k
FracInt(k) == [num |-> k, den |-> 1]

FracAdd(a, b) ==
    IF a.den = 0 \/ b.den = 0
    THEN Frac(0, 0)
    ELSE Frac(a.num * b.den + b.num * a.den, a.den * b.den)

FracMul(a, b) ==
    IF a.den = 0 \/ b.den = 0
    THEN Frac(0, 0)
    ELSE Frac(a.num * b.num, a.den * b.den)

\* the windows passed to update_from: data[i] of the code is window[i + 1]
Windows == UNION { [1..k -> -1..2] : k \in 0..MaxWin }

\* ((n - 1) * n) as f32 / 2.0; for n = 0 the usize product wraps to 0 when
\* overflow checks are off
SumX(n) == ((n - 1) * n) \div 2

\* (0..n).map(|x| x as f32 * x as f32).sum()
RECURSIVE SumXsq(_)
SumXsq(n) == IF n = 0 THEN 0 ELSE (n - 1) * (n - 1) + SumXsq(n - 1)

\* Linreg::new(n)
LinregNew(n) ==
    [intercept |-> FracInt(0),
     slope |-> FracInt(1),
     n |-> n,
     sumx |-> SumX(n),
     sum_xsq |-> SumXsq(n),
     sumx_sq |-> SumX(n) * SumX(n)]

\* Linreg::update_constants
update_constants(self) ==
    [self EXCEPT !.sumx = SumX(self.n),
                 !.sum_xsq = SumXsq(self.n),
                 !.sumx_sq = SumX(self.n) * SumX(self.n)]

\* Linreg::y
y(self, x) == FracAdd(self.intercept, FracMul(self.slope, x))

\* sum_y of the loop of update_from over data[0..k-1]
RECURSIVE SumOfY(_, _)
SumOfY(window, k) == IF k = 0 THEN 0 ELSE window[k] + SumOfY(window, k - 1)

\* sum_xy of the loop of update_from over data[0..k-1]
RECURSIVE SumOfXY(_, _)
SumOfXY(window, k) ==
    IF k = 0 THEN 0 ELSE window[k] * (k - 1) + SumOfXY(window, k - 1)

\* update_from on an empty window leaving the fit as it was
EmptyWindow_keeps_fit(self) == self

\* update_from, lines 47-51: the empty window
EmptyWindow(self) ==
    [self EXCEPT !.intercept = FracInt(0), !.slope = FracInt(1)]

\* update_from never refreshing the cached sums
Recache_never(self, n) == [self EXCEPT !.n = n]

\* update_from, lines 52-55: the cached sums follow the window length
Recache(self, n) ==
    IF n # self.n THEN update_constants([self EXCEPT !.n = n]) ELSE self

\* the denominator of lines 59 and 61
Denominator(self) == self.n * self.sum_xsq - self.sumx_sq

\* update_from, lines 57-61: the closed-form least squares
Fit(self, window) ==
    LET sum_y == SumOfY(window, Len(window))
        sum_xy == SumOfXY(window, Len(window))
    IN  [self EXCEPT
            !.intercept = Frac(sum_y * self.sum_xsq - self.sumx * sum_xy,
                               Denominator(self)),
            !.slope = Frac(self.n * sum_xy - self.sumx * sum_y,
                           Denominator(self))]

\* Linreg::update_from
update_from(self, window) ==
    IF Len(window) = 0
    THEN EmptyWindow(self)
    ELSE Fit(Recache(self, Len(window)), window)

\* lr.update_from(&data)
LinregUpdateFrom(window) ==
    /\ lrOp # "panic"
    /\ lrData' = window
    /\ lr' = update_from(lr, window)
    /\ lrPre' = IF Len(window) = 0 THEN lr ELSE lr'
    /\ lrRefit' = (lrOp = "update_from" /\ Len(window) # 0 /\ Len(window) # lr.n)
    /\ lrOp' = "update_from"

\* Linreg::new(n) has run; new(0) either wraps (n - 1) * n to 0 or panics
\* on the usize underflow, depending on the build's overflow checks
LinregInit ==
    /\ \E n \in 0..MaxWin :
          /\ lr = LinregNew(n)
          /\ lrPre = LinregNew(n)
          /\ lrOp \in (IF n = 0 THEN {"new", "panic"} ELSE {"new"})
    /\ lrData = <<>>
    /\ lrRefit = FALSE

\* no Linreg in use
LinregIdle ==
    /\ lr = LinregNew(1)
    /\ lrPre = LinregNew(1)
    /\ lrOp = "new"
    /\ lrData = <<>>
    /\ lrRefit = FALSE

(***************************************************************************)
(* filters.rs.  f32 values are the rationals of linreg.rs; an Option<f32>  *)
(* is None or Some(v).                                                     *)
(***************************************************************************)
None == [some |-> FALSE]

Some(v) == [some |-> TRUE, v |-> v]

FracSub(a, b) == FracAdd(a, FracMul(FracInt(-1), b))

\* (-1.0 / samples).exp(), to the nearest eighth: exp(-1) = 0.368,
\* exp(-1/2) = 0.607
ExpNegInv(samples) == IF samples = 1 THEN Frac(3, 8) ELSE Frac(5, 8)

\* HighPassFilter::from_samples
HighPassFilter_from_samples(samples) ==
    LET k_x == ExpNegInv(samples)
        k_a0 == FracMul(FracAdd(FracInt(1), k_x), Frac(1, 2))
    IN  [k_a0 |-> k_a0,
         k_a1 |-> FracMul(FracInt(-1), k_a0),
         k_b1 |-> k_x,
         last_filter_value |-> None,
         last_raw_value |-> None]

\* the filter value of a HighPassFilter that takes missing history as 0.0
HighPassValue_zero_history(self, value) == FracMul(self.k_a0, value)

\* HighPassFilter::run, lines 33-38: the filter value
HighPassValue(self, value) ==
    IF ~self.last_filter_value.some \/ ~self.last_raw_value.some
    THEN FracInt(0)
    ELSE FracAdd(FracAdd(FracMul(self.k_a0, value),
                         FracMul(self.k_a1, self.last_raw_value.v)),
                 FracMul(self.k_b1, self.last_filter_value.v))

\* HighPassFilter::run: the filter after the call and the value returned
HighPassFilter_run(self, value) ==
    [st |-> [self EXCEPT !.last_filter_value = Some(HighPassValue(self, value)),
                         !.last_raw_value = Some(value)],
     out |-> HighPassValue(self, value)]

\* HighPassFilter::reset_state
HighPassFilter_reset_state(self) ==
    [self EXCEPT !.last_filter_value = None, !.last_raw_value = None]

\* LowPassFilter::from_samples
LowPassFilter_from_samples(samples) ==
    LET k_x == ExpNegInv(samples)
    IN  [k_a0 |-> FracSub(FracInt(1), k_x),
         k_b1 |-> k_x,
         last_value |-> None]

\* LowPassFilter::run, lines 79-82: the filter value
LowPassValue(self, value) ==
    IF ~self.last_value.some
    THEN value
    ELSE FracAdd(FracMul(self.k_a0, value),
                 FracMul(self.k_b1, self.last_value.v))

\* LowPassFilter::run: the filter after the call and the value returned
LowPassFilter_run(self, value) ==
    [st |-> [self EXCEPT !.last_value = Some(LowPassValue(self, value))],
     out |-> LowPassValue(self, value)]

\* a reset_state that leaves the history in place
LowPassFilter_reset_state_keeps_history(self) == self

\* LowPassFilter::reset_state
LowPassFilter_reset_state(self) == [self EXCEPT !.last_value = None]

\* Differentiator::new
Differentiator_new(sampling_rate) ==
    [prev |-> None, sampling_rate |-> FracInt(sampling_rate)]

\* the difference without the scaling by the sampling rate
DiffValue_unscaled(self, x) == FracSub(x, self.prev.v)

\* Differentiator::diff, line 114
DiffValue(self, x) == FracMul(FracSub(x, self.prev.v), self.sampling_rate)

\* Differentiator::diff: the Differentiator after the call and the Option
\* returned
Differentiator_diff(self, x) ==
    [st |-> [self EXCEPT !.prev = Some(x)],
     out |-> IF self.prev.some THEN Some(DiffValue(self, x)) ELSE None]

\* Differentiator::reset_state
Differentiator_reset_state(self) == [self EXCEPT !.prev = None]

\* the filter in use
Active == IF kind = "hp" THEN hp ELSE IF kind = "lp" THEN lp ELSE df

\* the filter in use as its constructor returns it
Constructed ==
    IF kind = "hp" THEN HighPassFilter_from_samples(fArg)
    ELSE IF kind = "lp" THEN LowPassFilter_from_samples(fArg)
    ELSE Differentiator_new(fArg)

\* bookkeeping of a run / diff call with argument value that returned out
RunBookkeeping(value, out) ==
    /\ fCalls < MaxCalls
    /\ fCalls' = fCalls + 1
    /\ fRuns' = fRuns + 1
    /\ fOp' = "run"
    /\ fIn' = value
    /\ fOut' = out
    /\ fPre' = Active
    /\ fPrev' = [op |-> fOp, arg |-> fIn]
    /\ UNCHANGED <<kind, fArg, twinOn>>

\* bookkeeping of a reset_state call
ResetBookkeeping ==
    /\ fCalls < MaxCalls
    /\ fCalls' = fCalls + 1
    /\ fOp' = "reset"
    /\ fPre' = Active
    /\ fPrev' = [op |-> fOp, arg |-> fIn]
    /\ twin' = Constructed
    /\ twinOn' = TRUE
    /\ UNCHANGED <<kind, fArg, fIn, fOut, fRuns, twinOut>>

\* hp.run(value)
HighPassRun(value) ==
    /\ kind = "hp"
    /\ hp' = HighPassFilter_run(hp, value).st
    /\ RunBookkeeping(value, HighPassFilter_run(hp, value).out)
    /\ twin' = IF twinOn THEN HighPassFilter_run(twin, value).st ELSE twin
    /\ twinOut' = IF twinOn THEN HighPassFilter_run(twin, value).out ELSE twinOut
    /\ UNCHANGED <<lp, df>>

\* hp.reset_state()
HighPassReset ==
    /\ kind = "hp"
    /\ hp' = HighPassFilter_reset_state(hp)
    /\ ResetBookkeeping
    /\ UNCHANGED <<lp, df>>

\* lp.run(value)
LowPassRun(value) ==
    /\ kind = "lp"
    /\ lp' = LowPassFilter_run(lp, value).st
    /\ RunBookkeeping(value, LowPassFilter_run(lp, value).out)
    /\ twin' = IF twinOn THEN LowPassFilter_run(twin, value).st ELSE twin
    /\ twinOut' = IF twinOn THEN LowPassFilter_run(twin, value).out ELSE twinOut
    /\ UNCHANGED <<hp, df>>

\* lp.reset_state()
LowPassReset ==
    /\ kind = "lp"
    /\ lp' = LowPassFilter_reset_state(lp)
    /\ ResetBookkeeping
    /\ UNCHANGED <<hp, df>>

\* df.diff(x)
DifferentiatorDiff(x) ==
    /\ kind = "diff"
    /\ df' = Differentiator_diff(df, x).st
    /\ RunBookkeeping(x, Differentiator_diff(df, x).out)
    /\ twin' = IF twinOn THEN Differentiator_diff(twin, x).st ELSE twin
    /\ twinOut' = IF twinOn THEN Differentiator_diff(twin, x).out ELSE twinOut
    /\ UNCHANGED <<hp, lp>>

\* df.reset_state()
DifferentiatorReset ==
    /\ kind = "diff"
    /\ df' = Differentiator_reset_state(df)
    /\ ResetBookkeeping
    /\ UNCHANGED <<hp, lp>>

\* the history of a filter just constructed
FilterBookkeepingInit ==
    /\ fOp = "new"
    /\ fIn = FracInt(0)
    /\ fOut = None
    /\ fPre = Active
    /\ fPrev = [op |-> "new", arg |-> FracInt(0)]
    /\ fCalls = 0
    /\ fRuns = 0
    /\ twin = Active
    /\ twinOn = FALSE
    /\ twinOut = None

\* one of the three filters has been constructed and is in use
FilterInit ==
    /\ kind \in {"hp", "lp", "diff"}
    /\ fArg \in (IF kind = "diff" THEN {2, 25} ELSE {1, 2})
    /\ hp = HighPassFilter_from_samples(IF kind = "hp" THEN fArg ELSE 1)
    /\ lp = LowPassFilter_from_samples(IF kind = "lp" THEN fArg ELSE 1)
    /\ df = Differentiator_new(IF kind = "diff" THEN fArg ELSE 2)
    /\ FilterBookkeepingInit

\* no filter in use
FilterIdle ==
    /\ kind = "hp"
    /\ fArg = 1
    /\ hp = HighPassFilter_from_samples(1)
    /\ lp = LowPassFilter_from_samples(1)
    /\ df = Differentiator_new(2)
    /\ FilterBookkeepingInit

\* the ring buffer as main.rs constructs it, untouched
CircIdle == CircNew(CircN, 0)

\* the pulse train of the runs that do not vary it
DefaultTrain == [lo |-> 1000, hi |-> 3000]

(***************************************************************************)
(* signal.rs.  The samples are integers, so the f32 differences are exact. *)
(***************************************************************************)
\* the windows [f32; N] scanned, N >= 1
BeatWindows == UNION { [1..N -> 0..2] : N \in 1..MaxN }

\* DerivItr::next on the window hbData: the iterator after the call and the
\* Option returned
DerivItr_next(self) ==
    IF self.idx >= Len(hbData) - 1
    THEN [st |-> self, out |-> None]
    ELSE [st |-> [self EXCEPT !.idx = self.idx + 1],
          out |-> Some([idx |-> self.idx,
                        sample |-> hbData[self.idx + 1],
                        deriv |-> hbData[self.idx + 2] - hbData[self.idx + 1]])]

\* HeartbeatItr::new, with the DerivItr::new it holds
HeartbeatItr_new ==
    [deriv_itr |-> [idx |-> 0], high |-> None, last_deriv |-> None]

\* the branches taken when the derivative turns negative instead
Branch_on_fall(last_deriv, d) ==
    IF d.deriv >= 0 THEN "high"
    ELSE IF last_deriv >= 0 THEN "emit" ELSE "skip"

\* HeartbeatItr::next, lines 47-63: the branch taken for item d
Branch(last_deriv, d) ==
    IF d.deriv >= 0
    THEN IF last_deriv >= 0 THEN "high" ELSE "emit"
    ELSE "skip"

\* HeartbeatItr::next: the loop runs until a Heartbeat is returned or the
\* DerivItr ends; the iterator after the call and the Option returned
RECURSIVE HeartbeatItr_next(_)
HeartbeatItr_next(self) ==
    LET r == DerivItr_next(self.deriv_itr)
        s1 == [self EXCEPT !.deriv_itr = r.st]
    IN  IF ~r.out.some
        THEN [st |-> s1, out |-> None]
        ELSE IF ~self.last_deriv.some
        THEN HeartbeatItr_next([s1 EXCEPT !.last_deriv = Some(r.out.v.deriv)])
        ELSE LET d == r.out.v
                 s2 == [s1 EXCEPT !.last_deriv = Some(d.deriv)]
                 branch == Branch(self.last_deriv.v, d)
             IN  IF branch = "high"
                 THEN HeartbeatItr_next([s2 EXCEPT !.high = Some(d)])
                 ELSE IF branch = "emit" /\ s2.high.some
                 \* the Heartbeat of lines 53-58
                 THEN [st |-> s2,
                       out |-> Some([high_idx |-> s2.high.v.idx,
                                     high_value |-> s2.high.v.sample,
                                     low_idx |-> d.idx,
                                     low_value |-> d.sample])]
                 ELSE HeartbeatItr_next(s2)

\* itr.next(), until it has returned None
HeartbeatNext ==
    /\ ~hbDone
    /\ hb' = HeartbeatItr_next(hb).st
    /\ hbOut' = HeartbeatItr_next(hb).out
    /\ emitted' = IF hbOut'.some THEN Append(emitted, hbOut'.v) ELSE emitted
    /\ hbDone' = ~hbOut'.some
    /\ UNCHANGED hbData

\* HeartbeatItr::new(&window)
HeartbeatInit(w) ==
    /\ hbData = w
    /\ hb = HeartbeatItr_new
    /\ hbOut = None
    /\ emitted = <<>>
    /\ hbDone = FALSE

\* no HeartbeatItr in use
HeartbeatIdle == HeartbeatInit(<<0>>)

(***************************************************************************)
(* main.rs: the samples ring buffer shared, behind a Mutex, by the         *)
(* processing loop of main and the loop of heart_sensing_task.  A step is  *)
(* what a thread does between two operations on the mutex or the buffer.   *)
(***************************************************************************)
\* Mutex::lock returning at once whoever holds the mutex
MutexFree_ignored == TRUE

\* Mutex::lock returns when no thread holds the mutex
MutexFree == mtx = "free"

\* main, lines 193-195: sleep, then samples.lock()
MainLock ==
    /\ mainPc = "sleep"
    /\ MutexFree
    /\ mtx' = "main"
    /\ mainPc' = "locked"
    /\ snap' = added
    /\ UNCHANGED <<circVars, sensePc, chan, data_to_send, sent>>

\* main, line 197: samples.iter()
MainIter ==
    /\ mainPc = "locked"
    /\ CircIterNew
    /\ mainPc' = "copy"
    /\ UNCHANGED <<mtx, sensePc, chan, snap, data_to_send, sent>>

\* update_from_samples pulls the next sample from the iterator
MainCopyNext ==
    /\ mainPc = "copy"
    /\ CircIterNextSome
    /\ UNCHANGED mainVars

\* the iterator ends: update_from_samples returns with the samples copied
MainCopyEnd ==
    /\ mainPc = "copy"
    /\ CircIterNextNone
    /\ chan' = yielded
    /\ mainPc' = "copied"
    /\ UNCHANGED <<mtx, sensePc, snap, data_to_send, sent>>

\* main, line 198: the block ends, the iterator and the guard are dropped
MainUnlock ==
    /\ mainPc = "copied"
    /\ CircIterDrop
    /\ mtx' = "free"
    /\ mainPc' = "process"
    /\ UNCHANGED <<sensePc, chan, snap, data_to_send, sent>>

\* main, line 200: process_signal, which does not touch samples
MainProcess ==
    /\ mainPc = "process"
    /\ mainPc' = "send"
    /\ UNCHANGED <<circVars, mtx, sensePc, chan, snap, data_to_send, sent>>

\* main, lines 202-222: under the data_to_send mutex, a non-zero data_to_send
\* is cleared and HeartRate(heart_data_channel.ac[last]) is sent; the rest of
\* the loop body (lines 224-266) touches neither samples nor data_to_send
MainSend ==
    /\ mainPc = "send"
    /\ data_to_send' = 0
    /\ sent' = IF data_to_send > 0
               THEN <<Len(snap),
                      IF sensePc \in {"flagged", "locked"}
                      THEN Len(added) + 1 ELSE Len(added)>>
               ELSE <<>>
    /\ mainPc' = "sleep"
    /\ UNCHANGED <<circVars, mtx, sensePc, chan, snap>>

\* heart_sensing_task, lines 309-314: read_fifo returned a sample, and
\* *data_to_send.lock().unwrap() = 1 before the sample is added
SenseFlag ==
    /\ sensePc = "read"
    /\ Len(added) < MaxAdds
    /\ data_to_send' = 1
    /\ sensePc' = "flagged"
    /\ UNCHANGED <<circVars, mtx, mainPc, chan, snap, sent>>

\* heart_sensing_task, line 316: samples.lock()
SenseLock ==
    /\ sensePc = "flagged"
    /\ MutexFree
    /\ mtx' = "sense"
    /\ sensePc' = "locked"
    /\ UNCHANGED <<circVars, mainPc, chan, snap, data_to_send, sent>>

\* heart_sensing_task, line 316: .add(data[0] as f32), the guard is dropped at
\* the end of the statement
SenseAdd(s) ==
    /\ sensePc = "locked"
    /\ data' = [data EXCEPT ![next] = s]
    /\ next' = wrap_next(next)
    /\ added' = Append(added, s)
    /\ mtx' = "free"
    /\ sensePc' = "read"
    /\ UNCHANGED <<count, fill, iterating, idx, done, yielded, exhausted,
                   mainPc, chan, snap, data_to_send, sent>>

\* main after its 400 ms start-up sleep, heart_sensing_task in its loop
MainIdle ==
    /\ mtx = "free"
    /\ mainPc = "sleep"
    /\ sensePc = "read"
    /\ chan = <<>>
    /\ snap = <<>>
    /\ data_to_send = 0
    /\ sent = <<>>

(***************************************************************************)
(* main.rs: the mutexes shared by the tasks.  The loop of each task is the *)
(* sequence of its operations on the mutexes: <<"lock", m>> is a           *)
(* m.lock().unwrap() (MutexDevice's lock of the I2C bus for "i2c"),        *)
(* <<"unlock", m>> the drop of that guard, <<"goto", S>> a branch of the   *)
(* code to one of the positions S, <<"end">> the return of the task.  The  *)
(* guard of a lock() that is a temporary is dropped at the end of its      *)
(* statement (at the end of the condition for the if of send_via_udp).     *)
(***************************************************************************)
\* main, lines 192-266
MainScript ==
    << <<"lock", "samples">>,            \* 1: line 195
       <<"unlock", "samples">>,          \* 2: line 198
       <<"lock", "data_to_send">>,       \* 3: line 203
       <<"goto", {5, 10}>>,              \* 4: line 204, *data_to_send > 0
       <<"lock", "status">>,             \* 5: send_via_udp, line 507
       <<"unlock", "status">>,           \* 6
       <<"goto", {8, 10}>>,              \* 7: connected
       <<"lock", "udp_socket">>,         \* 8: line 509
       <<"unlock", "udp_socket">>,       \* 9: line 515
       <<"unlock", "data_to_send">>,     \* 10: line 222
       <<"goto", {12, 15}>>,             \* 11: lines 224-232
       <<"lock", "i2c">>,                \* 12: line 233, haptic.set_go
       <<"unlock", "i2c">>,              \* 13
       <<"goto", {15, 27}>>,             \* 14: line 233, ?
       <<"lock", "status">>,             \* 15: line 244
       <<"goto", {17, 19}>>,             \* 16: lines 245-247
       <<"lock", "i2c">>,                \* 17: lines 248-256
       <<"unlock", "i2c">>,              \* 18
       <<"unlock", "status">>,           \* 19: line 259, or the ? of 254-256
       <<"goto", {21, 27}>>,             \* 20: the ? of lines 254-256
       <<"lock", "status">>,             \* 21: send_via_udp, line 507
       <<"unlock", "status">>,           \* 22
       <<"goto", {24, 26}>>,             \* 23: connected
       <<"lock", "udp_socket">>,         \* 24: line 509
       <<"unlock", "udp_socket">>,       \* 25: line 515
       <<"goto", {1}>>,                  \* 26: line 266
       <<"end">> >>                      \* 27: main returned an error

\* heart_sensing_task, lines 306-339, and line 184 after it returned
SenseScript ==
    << <<"lock", "i2c">>,                \* 1: line 309, read_fifo
       <<"unlock", "i2c">>,              \* 2
       <<"goto", {4, 13}>>,              \* 3: lines 310, 324, 325
       <<"lock", "data_to_send">>,       \* 4: line 313
       <<"unlock", "data_to_send">>,     \* 5
       <<"lock", "samples">>,            \* 6: line 316
       <<"unlock", "samples">>,          \* 7
       <<"lock", "status">>,             \* 8: send_via_udp, line 507
       <<"unlock", "status">>,           \* 9
       <<"goto", {11, 13}>>,             \* 10: connected
       <<"lock", "udp_socket">>,         \* 11: line 509
       <<"unlock", "udp_socket">>,       \* 12: line 515
       <<"lock", "status">>,             \* 13: line 329
       <<"goto", {15, 17}>>,             \* 14: line 330
       <<"lock", "i2c">>,                \* 15: line 333
       <<"unlock", "i2c">>,              \* 16
       <<"unlock", "status">>,           \* 17: line 336, or the ? of line 334
       <<"goto", {1, 19}>>,              \* 18: line 339, or the ? of line 334
       <<"lock", "status">>,             \* 19: line 184
       <<"unlock", "status">>,           \* 20
       <<"end">> >>                      \* 21

\* status_log_thread, lines 351-392
StatusLogScript ==
    << <<"lock", "status">>,             \* 1: line 353
       <<"unlock", "status">>,           \* 2
       <<"lock", "status">>,             \* 3: send_via_udp, line 507
       <<"unlock", "status">>,           \* 4
       <<"goto", {6, 8}>>,               \* 5: connected
       <<"lock", "udp_socket">>,         \* 6: line 509
       <<"unlock", "udp_socket">>,       \* 7: line 515
       <<"goto", {9, 12}>>,              \* 8: line 360
       <<"lock", "ip_info">>,            \* 9: line 361
       <<"unlock", "ip_info">>,          \* 10: line 365 or 388
       <<"goto", {1}>>,                  \* 11
       <<"lock", "status">>,             \* 12: line 390
       <<"unlock", "status">>,           \* 13
       <<"goto", {1}>> >>                \* 14: line 392

\* eth_reconnect_task, lines 401-426
EthScript ==
    << <<"lock", "eth">>,                \* 1: line 403
       <<"goto", {3, 7}>>,               \* 2: lines 405-407
       <<"lock", "ip_info">>,            \* 3: line 409 or 419
       <<"lock", "status">>,             \* 4: line 412 or 421
       <<"unlock", "status">>,           \* 5
       <<"unlock", "ip_info">>,          \* 6: line 413 or 422
       <<"unlock", "eth">>,              \* 7: line 426
       <<"goto", {1}>> >>                \* 8

\* tcp_receiver_task, lines 439-503: the commands 2, 4 and 3
TcpScript ==
    << <<"goto", {2, 5}>>,               \* 1: line 453
       <<"lock", "status">>,             \* 2: line 472 or 484
       <<"unlock", "status">>,           \* 3
       <<"goto", {1}>>,                  \* 4
       <<"lock", "udp_socket">>,         \* 5: line 479
       <<"unlock", "udp_socket">>,       \* 6
       <<"goto", {1}>> >>                \* 7

\* the tasks spawned at lines 102-186, with main
Script ==
    [main |-> MainScript, sense |-> SenseScript, status_log |-> StatusLogScript,
     eth |-> EthScript, tcp |-> TcpScript]

\* MutexGuard::drop leaving the mutex locked (a leaked guard)
LockRelease_leaks_guard(t) ==
    /\ Script[t][lockPc[t]][1] = "unlock"
    /\ lockPc' = [lockPc EXCEPT ![t] = lockPc[t] + 1]
    /\ UNCHANGED holder

\* Mutex::lock returns once no task holds the mutex
LockAcquire(t) ==
    /\ Script[t][lockPc[t]][1] = "lock"
    /\ holder[Script[t][lockPc[t]][2]] = "none"
    /\ holder' = [holder EXCEPT ![Script[t][lockPc[t]][2]] = t]
    /\ lockPc' = [lockPc EXCEPT ![t] = lockPc[t] + 1]

\* MutexGuard::drop
LockRelease(t) ==
    /\ Script[t][lockPc[t]][1] = "unlock"
    /\ holder' = [holder EXCEPT ![Script[t][lockPc[t]][2]] = "none"]
    /\ lockPc' = [lockPc EXCEPT ![t] = lockPc[t] + 1]

\* a branch of the task's code
LockBranch(t) ==
    /\ Script[t][lockPc[t]][1] = "goto"
    /\ \E k \in Script[t][lockPc[t]][2] : lockPc' = [lockPc EXCEPT ![t] = k]
    /\ UNCHANGED holder

\* every task at the top of its loop, no mutex held
LocksIdle ==
    /\ holder = [m \in {"samples", "data_to_send", "status", "ip_info", "eth",
                        "udp_socket", "i2c"} |-> "none"]
    /\ lockPc = [t \in DOMAIN Script |-> 1]

(***************************************************************************)
(* ota.rs: simple_download_and_update_firmware, called by command 1 of     *)
(* tcp_receiver_task.  What the HTTP client, the firmware info loader and  *)
(* the OTA partition answer is chosen freely.                              *)
(***************************************************************************)
\* main.rs line 463 and ota.rs lines 19-51: the request is made, the status
\* and the declared length are checked and the update is initiated; any
\* failure returns an error
OtaStart ==
    /\ otaPc = "idle"
    /\ \E ok \in BOOLEAN, content_len \in 0..(OtaMaxSize + 1),
          sends \in 0..(OtaMaxSize + 1) :
          /\ file_size' = content_len
          /\ body' = sends
          /\ IF ok /\ content_len > OtaMinSize /\ content_len <= OtaMaxSize
             THEN otaPc' = "loop" /\ work' = "open" /\ otaRet' = "none"
             ELSE otaPc' = "returned" /\ work' = "none" /\ otaRet' = "Err"
    /\ UNCHANGED <<total_read_len, got_info, dl_result, written, otaReads>>

\* lines 53-73, one pass of the loop: read returns len bytes (0 for an error
\* or the end of the body); info_ok and write_ok are the answers of
\* get_firmware_info, which fails on an empty slice, and of work.write
OtaRead ==
    /\ otaPc = "loop"
    /\ \E len \in 0..OtaChunk, info_ok \in BOOLEAN, write_ok \in BOOLEAN :
          /\ len <= body
          /\ body' = body - len
          /\ otaReads' = 1 - otaReads
          /\ total_read_len' = total_read_len + len
          /\ IF ~got_info /\ ~(info_ok /\ len > 0)
             THEN /\ dl_result' = "Err"
                  /\ otaPc' = "after"
                  /\ UNCHANGED <<got_info, written>>
             ELSE /\ got_info' = TRUE
                  /\ IF len > 0 /\ ~write_ok
                     THEN /\ dl_result' = "Err"
                          /\ otaPc' = "after"
                          /\ UNCHANGED written
                     ELSE /\ written' = written + len
                          /\ IF total_read_len' >= file_size
                             THEN dl_result' = "Ok" /\ otaPc' = "after"
                             ELSE UNCHANGED <<dl_result, otaPc>>
    /\ UNCHANGED <<file_size, work, otaRet>>

\* lines 75-82: the result of work.abort() is returned when the loop broke
\* with an error or read too little, that of work.complete() otherwise
OtaFinish ==
    /\ otaPc = "after"
    /\ \E ok \in BOOLEAN :
          /\ work' = IF ~ok THEN "failed"
                     ELSE IF dl_result = "Err" \/ total_read_len < file_size
                          THEN "aborted" ELSE "completed"
          /\ otaRet' = IF ok THEN "Ok" ELSE "Err"
    /\ otaPc' = "returned"
    /\ UNCHANGED <<body, file_size, total_read_len, got_info, dl_result, written,
                   otaReads>>

\* main.rs lines 463-467: unwrap() panics on an error; otherwise restart()
TcpUpdate ==
    /\ otaPc = "returned"
    /\ otaPc' = IF otaRet = "Err" THEN "panic" ELSE "restart"
    /\ UNCHANGED <<body, file_size, total_read_len, got_info, dl_result, written,
                   work, otaRet, otaReads>>

\* tcp_receiver_task has not received command 1
OtaIdle ==
    /\ otaPc = "idle"
    /\ body = 0
    /\ file_size = 0
    /\ total_read_len = 0
    /\ got_info = FALSE
    /\ dl_result = "none"
    /\ written = 0
    /\ work = "none"
    /\ otaRet = "none"
    /\ otaReads = 0

InitCirc ==
    /\ \E COUNT \in 1..CircN, zero \in CircVals : CircNew(COUNT, zero)
    /\ SensorInit
    /\ train = DefaultTrain
    /\ WaveIdle
    /\ LinregIdle
    /\ FilterIdle
    /\ HeartbeatIdle
    /\ MainIdle
    /\ LocksIdle
    /\ OtaIdle

Init ==
    /\ CircIdle
    /\ SensorInit
    \* the low and high level (ADC readings) of the pulse trains fed
    /\ train \in { [lo |-> 1000, hi |-> 3000],
                   [lo |-> 1000, hi |-> 2454],
                   [lo |-> 2454, hi |-> 4095] }
    /\ WaveIdle
    /\ LinregIdle
    /\ FilterIdle
    /\ HeartbeatIdle
    /\ MainIdle
    /\ LocksIdle
    /\ OtaIdle

InitWave ==
    /\ CircIdle
    /\ SensorInit
    /\ train = DefaultTrain
    \* 60 beats per minute, every starting phase on a 20 ms grid
    /\ wave \in { [period |-> 1000, high |-> 300, phase |-> 20 * k] : k \in 0..49 }
    /\ beats = 0
    /\ LinregIdle
    /\ FilterIdle
    /\ HeartbeatIdle
    /\ MainIdle
    /\ LocksIdle
    /\ OtaIdle

InitLinreg ==
    /\ CircIdle
    /\ SensorInit
    /\ train = DefaultTrain
    /\ WaveIdle
    /\ LinregInit
    /\ FilterIdle
    /\ HeartbeatIdle
    /\ MainIdle
    /\ LocksIdle
    /\ OtaIdle

InitFilters ==
    /\ CircIdle
    /\ SensorInit
    /\ train = DefaultTrain
    /\ WaveIdle
    /\ LinregIdle
    /\ FilterInit
    /\ HeartbeatIdle
    /\ MainIdle
    /\ LocksIdle
    /\ OtaIdle

InitBeats ==
    /\ CircIdle
    /\ SensorInit
    /\ train = DefaultTrain
    /\ WaveIdle
    /\ LinregIdle
    /\ FilterIdle
    /\ \E w \in BeatWindows : HeartbeatInit(w)
    /\ MainIdle
    /\ LocksIdle
    /\ OtaIdle

NextCirc ==
    /\ \/ \E s \in CircVals : CircAdd(s)
       \/ CircIterNew
       \/ CircIterNextSome
       \/ CircIterNextNone
       \/ CircIterDrop
    /\ UNCHANGED <<sensorVars, waveVars, linVars, filterVars, beatVars, mainVars, lockVars, otaVars>>

NextSensor ==
    /\ \/ \E s \in {train.lo, train.hi} : Sample(s, MaxTime)
       \/ SawStartOfBeat
    /\ UNCHANGED <<circVars, waveVars, linVars, filterVars, beatVars, mainVars, lockVars, otaVars>>

NextReset ==
    /\ \/ \E s \in {train.lo, train.hi} : Sample(s, MaxResetTime)
       \/ SawStartOfBeat
       \/ ResetVariables
    /\ UNCHANGED <<circVars, waveVars, linVars, filterVars, beatVars, mainVars, lockVars, otaVars>>

NextLinreg ==
    /\ \E window \in Windows : LinregUpdateFrom(window)
    /\ UNCHANGED <<circVars, sensorVars, waveVars, filterVars, beatVars, mainVars, lockVars, otaVars>>

NextFilters ==
    /\ \/ \E value \in FilterVals : HighPassRun(FracInt(value))
       \/ HighPassReset
       \/ \E value \in FilterVals : LowPassRun(FracInt(value))
       \/ LowPassReset
       \/ \E x \in FilterVals : DifferentiatorDiff(FracInt(x))
       \/ DifferentiatorReset
    /\ UNCHANGED <<circVars, sensorVars, waveVars, linVars, beatVars, mainVars, lockVars, otaVars>>

NextBeats ==
    /\ HeartbeatNext
    /\ UNCHANGED <<circVars, sensorVars, waveVars, linVars, filterVars, mainVars, lockVars, otaVars>>

NextWave == WaveSample /\ UNCHANGED <<circVars, linVars, filterVars, beatVars, mainVars, lockVars, otaVars>>

InitMain ==
    /\ \E COUNT \in 1..CircN : CircNew(COUNT, 0)
    /\ SensorInit
    /\ train = DefaultTrain
    /\ WaveIdle
    /\ LinregIdle
    /\ FilterIdle
    /\ HeartbeatIdle
    /\ MainIdle
    /\ LocksIdle
    /\ OtaIdle

NextMain ==
    /\ \/ MainLock
       \/ MainIter
       \/ MainCopyNext
       \/ MainCopyEnd
       \/ MainUnlock
       \/ MainProcess
       \/ MainSend
       \/ SenseFlag
       \/ SenseLock
       \/ \E s \in CircVals : SenseAdd(s)
    /\ UNCHANGED <<sensorVars, waveVars, linVars, filterVars, beatVars, lockVars,
                   otaVars>>

\* the two threads of main.rs sharing the samples buffer
SpecMain == InitMain /\ [][NextMain]_vars

InitLocks ==
    /\ CircIdle
    /\ SensorInit
    /\ train = DefaultTrain
    /\ WaveIdle
    /\ LinregIdle
    /\ FilterIdle
    /\ HeartbeatIdle
    /\ MainIdle
    /\ LocksIdle
    /\ OtaIdle

NextLocks ==
    /\ \E t \in DOMAIN Script : \/ LockAcquire(t)
                                \/ LockRelease(t)
                                \/ LockBranch(t)
    /\ UNCHANGED <<circVars, sensorVars, waveVars, linVars, filterVars, beatVars,
                   mainVars, otaVars>>

\* the tasks of main.rs contending for the shared mutexes
SpecLocks == InitLocks /\ [][NextLocks]_vars

InitOta ==
    /\ CircIdle
    /\ SensorInit
    /\ train = DefaultTrain
    /\ WaveIdle
    /\ LinregIdle
    /\ FilterIdle
    /\ HeartbeatIdle
    /\ MainIdle
    /\ LocksIdle
    /\ OtaIdle

NextOta ==
    /\ \/ OtaStart
       \/ OtaRead
       \/ OtaFinish
       \/ TcpUpdate
    /\ UNCHANGED <<circVars, sensorVars, waveVars, linVars, filterVars, beatVars,
                   mainVars, lockVars>>

\* command 1 of tcp_receiver_task: the firmware update
SpecOta == InitOta /\ [][NextOta]_vars

\* the same, the thread of tcp_receiver_task being scheduled again and again
FairSpecOta == SpecOta /\ WF_vars(NextOta)

InitWrap ==
    /\ CircIdle
    /\ WrapInit
    /\ train = DefaultTrain
    /\ WaveIdle
    /\ LinregIdle
    /\ FilterIdle
    /\ HeartbeatIdle
    /\ MainIdle
    /\ LocksIdle
    /\ OtaIdle

NextWrap ==
    /\ \/ op # "panic" /\ \E s \in {train.lo, train.hi} : Sample(s, MaxWrapTime)
       \/ op # "panic" /\ SawStartOfBeat
       \/ SamplePanic
    /\ UNCHANGED <<circVars, waveVars, linVars, filterVars, beatVars, mainVars, lockVars, otaVars>>

\* the beat detector around the wrap of its u32 sample_counter
SpecWrap == InitWrap /\ [][NextWrap]_vars

InitConst ==
    /\ CircIdle
    /\ ConstInit
    /\ WaveIdle
    /\ LinregIdle
    /\ FilterIdle
    /\ HeartbeatIdle
    /\ MainIdle
    /\ LocksIdle
    /\ OtaIdle

NextConst ==
    /\ \/ Sample(train.lo, MaxTime)
       \/ SawStartOfBeat
       \/ ResetVariables
    /\ UNCHANGED <<circVars, waveVars, linVars, filterVars, beatVars, mainVars, lockVars, otaVars>>

\* the beat detector fed a constant input
SpecConst == InitConst /\ [][NextConst]_vars

\* the ring buffer alone
SpecCirc == InitCirc /\ [][NextCirc]_vars

\* the beat detector fed a pulse train
Spec == Init /\ [][NextSensor]_vars

\* the beat detector fed a pulse train and reset by its caller
SpecReset == Init /\ [][NextReset]_vars

\* one of the filters of filters.rs
SpecFilters == InitFilters /\ [][NextFilters]_vars

\* the batch beat detector scanning one window
SpecBeats == InitBeats /\ [][NextBeats]_vars

\* the windowed regression
SpecLinreg == InitLinreg /\ [][NextLinreg]_vars

\* the beat detector fed a periodic waveform
SpecWave == InitWave /\ [][NextWave]_vars

(***************************************************************************)
(* Ring buffer properties.                                                 *)
(***************************************************************************)
\* the last k values passed to Circ::add, oldest first
LastAdded(k) == SubSeq(added, Len(added) - k + 1, Len(added))

\* C1: after M > N calls to add, iter() yields exactly the last N added
\* values, oldest first: what a live iterator has yielded so far is a prefix
\* of them, and all N of them once it has returned None.
C1_IterYieldsLastN ==
    (iterating /\ Len(added) > count) =>
        /\ Len(yielded) <= count
        /\ yielded = SubSeq(LastAdded(count), 1, Len(yielded))
        /\ done => Len(yielded) = count
        /\ exhausted => done

\* C1 witness: an iterator ran to its end after more than N adds, with the
\* write cursor in the middle of the array
C1_Witness ==
    /\ iterating
    /\ exhausted
    /\ Len(added) > count
    /\ next # 0
    /\ yielded = LastAdded(count)
    /\ yielded[1] # yielded[count]

(***************************************************************************)
(* Beat detector properties.  After a Sample or WaveSample step, pre is    *)
(* the detector before read_next_sample, ps the detector on return from    *)
(* process_latest_sample and ps.signal the sample that call processed.     *)
(***************************************************************************)
Sampled == op = "sample"

\* the time since the last beat the call computes (lines 126-127)
CallN == pre.sample_counter + pre.sample_interval_ms - pre.last_beat_time

\* the sum of the ten slots of a rate array
RateSum(r) == r[0] + r[1] + r[2] + r[3] + r[4] + r[5] + r[6] + r[7] + r[8] + r[9]

\* the trough as refined by the call (lines 130-136)
RefinedT ==
    IF ps.signal < pre.thresh /\ CallN > (pre.ibi \div 5) * 3 /\ ps.signal < pre.t
    THEN ps.signal
    ELSE pre.t

\* the seed values the timeout block leaves (lines 189-199)
SeededState(self) ==
    /\ self.thresh = self.thresh_setting
    /\ self.p = 2047
    /\ self.t = 2047
    /\ self.bpm = 0
    /\ self.ibi = 750
    /\ self.amp = 409
    /\ ~self.pulse
    /\ ~self.qs
    /\ self.first_beat
    /\ ~self.second_beat

\* a beat start as the call leaves it
BeatStartState ==
    /\ ps.pulse
    /\ ps.ibi = CallN
    /\ ps.last_beat_time = ps.sample_counter

\* C2 as stated: a beat start is declared in exactly the calls where n > 250,
\* signal > thresh, pulse is false and n > 0.6 * ibi over the reals
\* (5 * n > 3 * ibi).
C2_BeatStartRealGate ==
    Sampled =>
        (ev.beat <=> /\ CallN > 250
                     /\ ps.signal > pre.thresh
                     /\ ~pre.pulse
                     /\ 5 * CallN > 3 * pre.ibi)

\* C2 amended: a beat start is declared in exactly the calls where n > 250,
\* signal > thresh, pulse is false and n > (ibi / 5) * 3 with the u16
\* division truncating; such a call leaves pulse set, ibi = n and
\* last_beat_time = sample_counter (unless the timeout block of the same call
\* overwrites them), and no other call changes ibi or last_beat_time unless it
\* times out.
C2_BeatStartIntegerGate ==
    Sampled =>
        /\ ev.beat <=> /\ CallN > 250
                       /\ ps.signal > pre.thresh
                       /\ ~pre.pulse
                       /\ CallN > (pre.ibi \div 5) * 3
        /\ (ev.beat /\ (pre.first_beat \/ CallN <= 2500)) => BeatStartState
        /\ (~ev.beat /\ CallN <= 2500) =>
               /\ ps.ibi = pre.ibi
               /\ ps.last_beat_time = pre.last_beat_time
               /\ ps.pulse => pre.pulse

\* C2 witness: a beat start declared at an n that is past (ibi / 5) * 3 but
\* not past 0.6 * ibi
C2_Witness ==
    /\ Sampled
    /\ ev.beat
    /\ BeatStartState
    /\ 5 * CallN <= 3 * pre.ibi

\* C3 as stated: every call that declares a beat start raises qs and sets bpm
\* to 60000 over the mean of the rate array.
C3_EveryBeatReports ==
    (Sampled /\ ev.beat) =>
        /\ ps.qs
        /\ ps.bpm = 60000 \div (RateSum(ps.rate) \div 10)

\* C3 amended: every call that declares a beat start, other than the first
\* beat after construction, reset_variables or a timeout and other than a beat
\* at n > 2500, appends ibi = n to the rate array (after seeding all of it on
\* the second beat), raises qs and sets bpm to 60000 / (sum / 10), both
\* divisions truncating; the saw_start_of_beat that follows returns true.
C3_LaterBeatReports ==
    /\ (Sampled /\ ev.beat /\ ~pre.first_beat /\ CallN <= 2500) =>
           /\ ps.qs
           /\ ps.rate = [i \in 0..9 |->
                            IF i = 9 \/ pre.second_beat THEN CallN
                                                        ELSE pre.rate[i + 1]]
           /\ ps.bpm = 60000 \div (RateSum(ps.rate) \div 10)
    /\ (op = "saw" /\ ev.beat /\ ~ev.early /\ ps.n <= 2500) => (ret /\ ~ps.qs)

\* C3 witness: a reported beat whose rate array holds three different
\* intervals
C3_Witness ==
    /\ Sampled
    /\ ev.beat
    /\ ps.qs
    /\ ps.rate[7] # ps.rate[8]
    /\ ps.rate[8] # ps.rate[9]
    /\ ps.rate[7] # ps.rate[9]
    /\ ps.bpm = 60000 \div (RateSum(ps.rate) \div 10)

\* C4 as stated: get_beats_per_minute returns 0 or a rate in 40..200.
C4_BpmInBand ==
    get_beats_per_minute(ps) = 0 \/ get_beats_per_minute(ps) \in 40..200

\* C5 as stated: every call that observes n > 2500 returns with the seed
\* values.
C5_TimeoutAlwaysResets == (Sampled /\ CallN > 2500) => SeededState(ps)

\* C5 amended: every call that observes n > 2500 returns with the seed values,
\* unless it declares the first beat after construction, reset_variables or a
\* timeout (first_beat set and signal > thresh): that call returns early with
\* pulse set, ibi = n, first_beat cleared and second_beat set.
C5_TimeoutResets ==
    (Sampled /\ CallN > 2500) =>
        IF pre.first_beat /\ ps.signal > pre.thresh
        THEN BeatStartState /\ ~ps.first_beat /\ ps.second_beat
        ELSE SeededState(ps)

\* C5 witness: a timeout that clears a reported rate and a measured amplitude
C5_Witness ==
    /\ Sampled
    /\ CallN > 2500
    /\ pre.bpm > 0
    /\ pre.amp # 409
    /\ pre.thresh # pre.thresh_setting
    /\ SeededState(ps)

\* the outputs C6 compares
SameAcquisition(a, b) ==
    /\ a.bpm = b.bpm
    /\ a.ibi = b.ibi
    /\ a.amp = b.amp
    /\ a.thresh = b.thresh
    /\ a.pulse = b.pulse
    /\ a.qs = b.qs

\* C6: after a timeout reset the detector returns, call for call, the same
\* bpm, ibi, amp, thresh, pulse and qs as a detector without any history fed
\* the same samples since that reset; so any two histories that end in a
\* timeout reset agree from there on.
C6_NoLeakAfterTimeout == canonOn => SameAcquisition(ps, canon)

\* C6 witness: the first rate reported after a timeout reset, computed while
\* the rate array still held the intervals of the acquisition before it
C6_Witness ==
    /\ canonOn
    /\ Sampled
    /\ ev.computed
    /\ pre.second_beat
    /\ pre.rate[0] # 0
    /\ pre.rate[0] # CallN
    /\ ps.bpm > 0
    /\ ps.rate # pre.rate
    /\ ps.sample_counter # canon.sample_counter

\* C8 as stated: at the first BPM computation after construction,
\* reset_variables or a timeout the ten slots all hold the IBI of that beat
\* and bpm is 60000 over that interval.
C8_FirstBpmIsSingleInterval ==
    (Sampled /\ ev.computed /\ pre.second_beat) =>
        /\ \A i \in 0..9 : ps.rate[i] = CallN
        /\ ps.bpm = 60000 \div CallN

\* C8 amended: at that computation the ten slots all hold the IBI n of that
\* beat, and bpm = 60000 / n on return when n <= 2500; a beat at n > 2500 is
\* cleared by the timeout block of the same call (bpm = 0, ibi = 750).
C8_FirstBpmSeeded ==
    (Sampled /\ ev.computed /\ pre.second_beat) =>
        /\ \A i \in 0..9 : ps.rate[i] = CallN
        /\ IF CallN <= 2500
           THEN ps.bpm = 60000 \div CallN /\ ps.ibi = CallN
           ELSE ps.bpm = 0 /\ ps.ibi = 750

\* C8 witness: a first BPM computation over a rate array that held other
\* values before
C8_Witness ==
    /\ Sampled
    /\ ev.computed
    /\ pre.second_beat
    /\ CallN <= 2500
    /\ \A i \in 0..9 : ps.rate[i] = ps.ibi /\ pre.rate[i] # ps.ibi
    /\ ps.bpm = 60000 \div ps.ibi

\* the pulse end of step 5
PulseEndState ==
    /\ ps.amp = pre.p - RefinedT
    /\ ps.thresh = (pre.p + RefinedT) \div 2
    /\ ps.p = ps.thresh
    /\ ps.t = ps.thresh

\* C9 as stated: a call with signal < thresh while pulse is set clears pulse,
\* sets amp = P - T and thresh = (P + T) / 2 and resets P and T to thresh.
C9_PulseEndAlways ==
    (Sampled /\ ps.signal < pre.thresh /\ pre.pulse) =>
        ~ps.pulse /\ PulseEndState

\* C9 amended: such a call clears pulse; when n <= 2500 it returns with
\* amp = P - T, thresh = (P + T) / 2, P = T = thresh; when n > 2500 the timeout
\* block of the same call replaces these by the seed values.
C9_PulseEnd ==
    (Sampled /\ ps.signal < pre.thresh /\ pre.pulse) =>
        /\ ~ps.pulse
        /\ IF CallN <= 2500 THEN PulseEndState ELSE SeededState(ps)

\* C9 witness: a pulse end in a call that also refined the trough
C9_Witness ==
    /\ Sampled
    /\ ps.signal < pre.thresh
    /\ pre.pulse
    /\ CallN <= 2500
    /\ RefinedT < pre.t
    /\ pre.t < pre.p
    /\ PulseEndState

\* C10: after reset_variables the detector returns, call for call, the same
\* bpm, ibi, amp, pulse, qs and last_beat_time as a PulseSensor constructed at
\* that moment and fed the same samples.
C10_ResetLikeNew ==
    freshOn =>
        /\ ps.bpm = fresh.bpm
        /\ ps.ibi = fresh.ibi
        /\ ps.amp = fresh.amp
        /\ ps.pulse = fresh.pulse
        /\ ps.qs = fresh.qs
        /\ ps.last_beat_time = fresh.last_beat_time

\* C10 witness: a rate reported after reset_variables by a detector whose
\* rate array held the intervals measured before the reset
C10_Witness ==
    /\ freshOn
    /\ Sampled
    /\ ev.computed
    /\ pre.second_beat
    /\ pre.rate[0] # 0
    /\ ps.bpm > 0
    /\ ps.bpm = fresh.bpm
    /\ ps.last_beat_time > 0
    /\ clock > ps.sample_counter

(***************************************************************************)
(* Periodic waveform.                                                      *)
(***************************************************************************)
\* C7 as stated: fed a 1000 ms periodic waveform from construction, for any
\* starting phase, the detector reports a BPM within 57..63 once it has
\* detected three beats.
C7_SixtyBpmAfterThirdBeat == beats >= 3 => ps.bpm \in 57..63

(***************************************************************************)
(* Arithmetic safety of the BPM computation.                               *)
(***************************************************************************)
\* C11: in every call of process_latest_sample that computes bpm, every slot
\* of the rate array holds an interval greater than 250 ms, the u16 sum of
\* the ten slots does not overflow, and the integer mean the call divides by
\* is not zero.
C11_MeanIntervalNonZero ==
    (Sampled /\ ev.computed) =>
        /\ \A i \in 0..9 : ps.rate[i] > 250
        /\ RateSum(ps.rate) < U16
        /\ SumRate(ps.rate, 0) = RateSum(ps.rate)
        /\ SumRate(ps.rate, 0) \div 10 # 0

\* C11 witness: a bpm computed over the largest intervals the timeout lets
\* through, in all ten slots
C11_Witness ==
    /\ Sampled
    /\ ev.computed
    /\ \A i \in 0..9 : ps.rate[i] > 2500
    /\ RateSum(ps.rate) > 25000
    /\ SumRate(ps.rate, 0) \div 10 > 2500

(***************************************************************************)
(* Windowed regression properties.  After update_from, lrData is the       *)
(* window passed and, when that window was empty, lrPre the Linreg before  *)
(* the call.                                                               *)
(***************************************************************************)
Updated == lrOp = "update_from"

\* C12 as stated: for every non-empty window the least-squares denominator
\* n*sum(x^2) - (sum x)^2 that update_from divides by is non-zero.
C12_DenominatorNonZero ==
    (Updated /\ Len(lrData) >= 1) =>
        /\ Denominator(lr) # 0
        /\ lr.intercept.den # 0
        /\ lr.slope.den # 0

\* C13: update_from on an empty window sets intercept = 0 and slope = 1
\* whatever the previous fit was, and leaves the cached window length and
\* the cached sums unchanged.
C13_EmptyWindowIdentity ==
    (Updated /\ Len(lrData) = 0) =>
        /\ lr.intercept = FracInt(0)
        /\ lr.slope = FracInt(1)
        /\ lr.n = lrPre.n
        /\ lr.sumx = lrPre.sumx
        /\ lr.sum_xsq = lrPre.sum_xsq
        /\ lr.sumx_sq = lrPre.sumx_sq

\* C13 witness: an empty window replacing a fit that was not the identity
C13_Witness ==
    /\ Updated
    /\ Len(lrData) = 0
    /\ lrPre.intercept.den = 1
    /\ lrPre.intercept.num # 0
    /\ lrPre.slope # FracInt(1)
    /\ lrPre.n > 1
    /\ lr.intercept = FracInt(0)
    /\ lr.slope = FracInt(1)
    /\ lr.n = lrPre.n

\* the window is exactly linear in the index
IsLinear(window) ==
    \A i \in 1..Len(window) :
        window[i] = window[1] + (window[2] - window[1]) * (i - 1)

\* C14: for a window of length >= 2 with data[x] = a + b*x, update_from
\* yields intercept = a and slope = b, and y(x) returns a + b*x for x inside
\* and outside the window.
C14_LinearRoundTrip ==
    (Updated /\ Len(lrData) >= 2 /\ IsLinear(lrData)) =>
        LET a == lrData[1]
            b == lrData[2] - lrData[1]
        IN  /\ lr.intercept = FracInt(a)
            /\ lr.slope = FracInt(b)
            /\ \A x \in -2..(MaxWin + 2) : y(lr, FracInt(x)) = FracInt(a + b * x)

\* C14 witness: a sloped line with a non-zero intercept recovered from a
\* window longer than two, shorter than the longest the cached sums were for
C14_Witness ==
    /\ Updated
    /\ Len(lrData) >= 3
    /\ IsLinear(lrData)
    /\ Len(lrData) # MaxWin
    /\ lrData[1] # 0
    /\ lrData[2] # lrData[1]
    /\ lr.intercept = FracInt(lrData[1])
    /\ y(lr, FracInt(Len(lrData) + 1))
           = FracInt(lrData[1] + (lrData[2] - lrData[1]) * (Len(lrData) + 1))

(***************************************************************************)
(* Ring buffer: partial fill and the write cursor.                         *)
(***************************************************************************)
\* what an iterator started now yields: the fill values left, then the
\* values added, oldest first; the last COUNT values once the buffer is full
Chronological ==
    IF Len(added) >= count
    THEN LastAdded(count)
    ELSE [i \in 1..count |->
             IF i <= count - Len(added) THEN fill
                                        ELSE added[i - (count - Len(added))]]

\* C15: iter, called in any reachable state of a buffer of capacity N >= 1,
\* yields exactly N values and then ends; after K < N adds these are the N-K
\* fill values followed by the K added values in insertion order.
C15_IterYieldsExactlyN ==
    iterating =>
        /\ Len(yielded) <= count
        /\ done <=> Len(yielded) = count
        /\ exhausted => done
        /\ yielded = SubSeq(Chronological, 1, Len(yielded))

\* C15 witness: an iterator ran to its end on a partly filled buffer
C15_Witness ==
    /\ iterating
    /\ exhausted
    /\ Len(added) > 0
    /\ Len(added) < count
    /\ Len(yielded) = count
    /\ yielded[1] = fill
    /\ yielded[count] = added[Len(added)]
    /\ yielded[count] # fill

\* the value the history puts in slot i: the last one added there, or fill
SlotValue(i) ==
    LET js == { j \in 1..Len(added) : (j - 1) % count = i }
    IN  IF js = {} THEN fill
        ELSE added[CHOOSE j \in js : \A k \in js : k <= j]

\* C16: in every reachable state 0 <= next < N and next = (number of adds)
\* mod N; every add stores into the slot that held the oldest value and
\* leaves the other slots as they were, so each slot holds the last value
\* added to it and the slot under the cursor the oldest value of the buffer.
C16_CursorAndSlots ==
    /\ next \in 0..(count - 1)
    /\ next = Len(added) % count
    /\ DOMAIN data = 0..(count - 1)
    /\ \A i \in 0..(count - 1) : data[i] = SlotValue(i)
    /\ data[next] = Chronological[1]

\* C16 witness: an add has overwritten the oldest value of a full buffer of
\* more than one slot
C16_Witness ==
    /\ ~iterating
    /\ count > 1
    /\ Len(added) > count
    /\ next # 0
    /\ data[wrap_next(next)] # data[next]
    /\ data[next] = added[Len(added) - count + 1]
    /\ data[IF next = 0 THEN count - 1 ELSE next - 1] = added[Len(added)]

(***************************************************************************)
(* Filter properties.  After a run or diff, fIn is its argument, fOut the  *)
(* value returned, fPre the filter before the call and fPrev the call made *)
(* before it.                                                              *)
(***************************************************************************)
\* C17: the first call to HighPassFilter::run after construction returns
\* exactly 0 for every input value, and the first call to LowPassFilter::run
\* after construction returns exactly its input value.
C17_ColdStart ==
    (fOp = "run" /\ fRuns = 1) =>
        /\ kind = "hp" => fOut = FracInt(0)
        /\ kind = "lp" => fOut = fIn

\* C17 witness: a HighPassFilter returned 0 for a non-zero first input
C17_Witness ==
    /\ fOp = "run"
    /\ fRuns = 1
    /\ fCalls = 1
    /\ kind = "hp"
    /\ fIn # FracInt(0)
    /\ fOut = FracInt(0)
    /\ hp.last_raw_value = Some(fIn)

\* C18 as stated: diff returns no value on the first call after construction
\* and on every later call returns (x - x_prev) * sampling_rate.
C18_DiffAfterFirstCall ==
    (kind = "diff" /\ fOp = "run") =>
        IF fRuns = 1
        THEN fOut = None
        ELSE /\ fOut.some
             /\ fOut.v = FracMul(FracSub(fIn, fPrev.arg), df.sampling_rate)

\* C18 amended: diff returns no value on the first call after construction
\* and on the first call after a reset_state; on every other call it returns
\* (x - x_prev) * sampling_rate, x_prev being the argument of the call of
\* diff immediately before.
C18_DiffUnlessNoHistory ==
    (kind = "diff" /\ fOp = "run") =>
        IF fRuns = 1 \/ fPrev.op = "reset"
        THEN fOut = None
        ELSE /\ fPrev.op = "run"
             /\ fOut = Some(FracMul(FracSub(fIn, fPrev.arg), df.sampling_rate))

\* C18 witness: a non-zero derivative returned by a call that followed
\* another call of diff
C18_Witness ==
    /\ kind = "diff"
    /\ fOp = "run"
    /\ fPrev.op = "run"
    /\ fIn # fPrev.arg
    /\ fOut.some
    /\ fOut.v # FracSub(fIn, fPrev.arg)
    /\ fOut.v = FracMul(FracSub(fIn, fPrev.arg), FracInt(fArg))

\* the coefficients / sampling rate of a filter of the kind in use
Coefficients(f) ==
    IF kind = "hp" THEN <<f.k_a0, f.k_a1, f.k_b1>>
    ELSE IF kind = "lp" THEN <<f.k_a0, f.k_b1>>
    ELSE <<f.sampling_rate>>

\* C19: no call changes the coefficients / sampling rate; reset_state leaves
\* the filter as its constructor returned it, and from then on it returns,
\* call for call, what a filter constructed with the same parameter at the
\* reset returns for the same inputs.
C19_ResetLikeConstructed ==
    /\ Coefficients(Active) = Coefficients(Constructed)
    /\ fOp = "reset" => Active = Constructed
    /\ (twinOn /\ fOp = "run") => (fOut = twinOut /\ Active = twin)

\* C19 witness: a filter with history before its reset, two runs after it
C19_Witness ==
    /\ twinOn
    /\ fOp = "run"
    /\ fPrev.op = "run"
    /\ fRuns >= 3
    /\ kind = "lp"
    /\ fOut = twinOut
    /\ fOut # fIn
    /\ lp = twin

(***************************************************************************)
(* Batch beat detector properties.  Index i is the index of data[i] in the *)
(* window, 0 .. N-1; FirstDiff(i) is data[i + 1] - data[i].                 *)
(***************************************************************************)
FirstDiff(i) == hbData[i + 2] - hbData[i + 1]

\* the indices that have a first difference before and at them
Inner == 1..(Len(hbData) - 2)

\* C20 as stated: a Heartbeat is emitted exactly at each index where the
\* first difference turns from non-negative to negative, low being the point
\* at that index.
C20_EmitsWhereDiffTurnsNegative ==
    hbDone =>
        /\ { emitted[k].low_idx : k \in 1..Len(emitted) } =
               { i \in Inner : FirstDiff(i - 1) >= 0 /\ FirstDiff(i) < 0 }
        /\ \A k \in 1..Len(emitted) :
               emitted[k].low_value = hbData[emitted[k].low_idx + 1]

\* index j continues a run of non-negative first differences
InRise(j) == j \in Inner /\ FirstDiff(j - 1) >= 0 /\ FirstDiff(j) >= 0

\* the first difference turns from negative to non-negative at index i
AtTrough(i) == i \in Inner /\ FirstDiff(i - 1) < 0 /\ FirstDiff(i) >= 0

\* the latest index before i that continues a non-negative run
LastRise(i) ==
    CHOOSE j \in 1..(i - 1) :
        InRise(j) /\ \A k \in 1..(i - 1) : InRise(k) => k <= j

\* the Heartbeats a whole scan of the window emits, by the amended rule
TroughBeats ==
    { [high_idx |-> LastRise(i), high_value |-> hbData[LastRise(i) + 1],
       low_idx |-> i, low_value |-> hbData[i + 1]] :
      i \in { t \in Inner : AtTrough(t) /\ \E j \in 1..(t - 1) : InRise(j) } }

\* C20 amended: a Heartbeat is emitted exactly at each index i where the
\* first difference turns from negative to non-negative, provided an earlier
\* index j has non-negative first differences before and at it; low is the
\* point at i and high the point at the latest such j (the high of an
\* earlier Heartbeat when no such j lies in between).  They are emitted in
\* index order.
C20_EmitsAtTroughs ==
    /\ \A k \in 1..Len(emitted) :
           /\ emitted[k] \in TroughBeats
           /\ emitted[k].low_idx < hb.deriv_itr.idx
           /\ k > 1 => emitted[k - 1].low_idx < emitted[k].low_idx
    /\ hbDone => { emitted[k] : k \in 1..Len(emitted) } = TroughBeats

\* C20 witness: a scan ended after two Heartbeats, the second one after a
\* rise of a single step, so with the high of the first
C20_Witness ==
    /\ hbDone
    /\ Len(emitted) = 2
    /\ emitted[1].high_idx = emitted[2].high_idx
    /\ emitted[1].high_value > emitted[1].low_value
    /\ emitted[1].low_idx < emitted[2].low_idx
    /\ AtTrough(emitted[2].low_idx)

\* C21 as stated: every Heartbeat emitted is a high-to-low transition,
\* high_value >= low_value.
C21_HighNotBelowLow ==
    \A k \in 1..Len(emitted) : emitted[k].high_value >= emitted[k].low_value

(***************************************************************************)
(* The samples mutex of main.rs.                                           *)
(***************************************************************************)
\* the chronological content of a buffer that was passed the values vs
SnapshotOf(vs) ==
    [i \in 1..count |->
        IF i <= count - Len(vs) THEN fill
                                ELSE vs[Len(vs) - count + i]]

\* C22: main holds the samples mutex only from its lock to the end of the
\* copy and has released it when process_signal runs, so a sample the
\* acquisition task wants to add during detection finds the mutex free; no
\* add interleaves with the copy, and every copied window is the
\* chronological content the buffer had when main locked it.
C22_LockAroundCopyOnly ==
    /\ mtx = "main" <=> mainPc \in {"locked", "copy", "copied"}
    /\ mtx = "sense" <=> sensePc = "locked"
    /\ (mainPc = "process" /\ sensePc # "locked") => MutexFree
    /\ mainPc \in {"locked", "copy", "copied"} => added = snap
    /\ mainPc \in {"copied", "process"} => chan = SnapshotOf(snap)

\* C22 witness: the acquisition task holds the mutex and adds while
\* process_signal runs on a snapshot of a buffer that had wrapped
C22_Witness ==
    /\ mainPc = "process"
    /\ sensePc = "locked"
    /\ mtx = "sense"
    /\ Len(snap) > count
    /\ Len(added) > Len(snap)
    /\ count > 1
    /\ chan = SnapshotOf(snap)
    /\ chan[1] # chan[count]

(***************************************************************************)
(* Beat detector: the trough gate.                                         *)
(***************************************************************************)
\* the detector as the trough refinement of the call (lines 130-136) left it
AfterTrough == UpdateTrough(AdvanceClock(read_next_sample(pre, ps.signal)))

\* C23 as stated: the trough refinement changes T only when signal < thresh
\* and n > 0.6 * ibi over the reals (5 * n > 3 * ibi), and then T becomes
\* min(T, signal); in every other call it leaves T unchanged.
C23_TroughRealGate ==
    Sampled =>
        AfterTrough.t = IF ps.signal < pre.thresh /\ 5 * CallN > 3 * pre.ibi
                        THEN (IF ps.signal < pre.t THEN ps.signal ELSE pre.t)
                        ELSE pre.t

\* C23 amended: the trough refinement sets T to min(T, signal) when
\* signal < thresh and n > (ibi / 5) * 3 with the u16 division truncating,
\* and leaves T unchanged in every other call; the call returns with that T
\* unless it also ends the pulse or times out.
C23_TroughIntegerGate ==
    Sampled =>
        /\ AfterTrough.t =
               IF ps.signal < pre.thresh /\ CallN > (pre.ibi \div 5) * 3
               THEN (IF ps.signal < pre.t THEN ps.signal ELSE pre.t)
               ELSE pre.t
        /\ (~ev.ended /\ ~ev.timeout) => ps.t = AfterTrough.t

\* C23 witness: the trough lowered at an n that is past (ibi / 5) * 3 but not
\* past 0.6 * ibi
C23_Witness ==
    /\ Sampled
    /\ ps.signal < pre.thresh
    /\ CallN > (pre.ibi \div 5) * 3
    /\ 5 * CallN <= 3 * pre.ibi
    /\ ps.t = ps.signal
    /\ ps.t < pre.t

(***************************************************************************)
(* Beat detector: how long a reported rate is kept.                        *)
(***************************************************************************)
\* C24 as stated: no call of process_latest_sample that does not compute a
\* new BPM changes the value get_beats_per_minute returns.
C24_BpmKeptUnlessComputed ==
    (Sampled /\ ~ev.computed) =>
        get_beats_per_minute(ps) = get_beats_per_minute(pre)

\* C24 amended: a call of process_latest_sample that neither computes a new
\* BPM nor times out (n > 2500) leaves the value get_beats_per_minute returns
\* unchanged, and so does saw_start_of_beat; a call that times out sets it
\* to 0.
C24_BpmKeptUntilTimeout ==
    /\ (Sampled /\ ~ev.computed /\ ~ev.timeout) =>
           get_beats_per_minute(ps) = get_beats_per_minute(pre)
    /\ (Sampled /\ ev.timeout) => get_beats_per_minute(ps) = 0
    /\ op = "saw" => get_beats_per_minute(ps) = get_beats_per_minute(pre)

\* C24 witness: a call that ends the pulse keeps the rate reported before
C24_Witness ==
    /\ Sampled
    /\ ~ev.computed
    /\ ~ev.timeout
    /\ ev.ended
    /\ get_beats_per_minute(pre) > 0
    /\ get_beats_per_minute(ps) = get_beats_per_minute(pre)

(***************************************************************************)
(* Beat detector: hysteresis and refractory period.                        *)
(***************************************************************************)
\* C25: between any two consecutive beat starts there is a call that ended
\* the pulse, a timeout or a reset_variables; while none of these has
\* happened after a beat start the pulse flag stays set, so that no further
\* beat start can be declared.
C25_Hysteresis ==
    /\ hist.starts = 2 =>
           hist.between.ended \/ hist.between.timeout \/ hist.between.reset
    /\ (hist.starts > 0 /\ hist.since = NoneSince) => ps.pulse

\* C25 witness: a second beat start declared after the pulse ended, with the
\* signal held above thresh since
C25_Witness ==
    /\ Sampled
    /\ ev.beat
    /\ hist.starts = 2
    /\ hist.between.ended
    /\ ~hist.between.timeout
    /\ hist.since = NoneSince
    /\ ps.pulse
    /\ ps.signal > ps.thresh

\* C26: without reset_variables any two consecutive beat starts are more than
\* 250 ms of sample_counter time apart, that is at least 126 calls of
\* process_latest_sample at the 2 ms sample interval, also when a timeout
\* reset ran between them.
C26_Refractory ==
    /\ ~hist.close
    /\ (Sampled /\ ev.beat /\ hist.starts = 2) =>
           /\ CallN > 250
           /\ CallN \div pre.sample_interval_ms >= 126

\* C26 witness: a beat start declared after a timeout reset that followed the
\* beat start before it
C26_Witness ==
    /\ Sampled
    /\ ev.beat
    /\ hist.starts = 2
    /\ hist.between.timeout
    /\ ~hist.close
    /\ hist.at = ps.sample_counter
    /\ CallN < 2500

(***************************************************************************)
(* Windowed regression: the fit depends on the window alone.               *)
(***************************************************************************)
\* C27: update_from on a non-empty window leaves the Linreg, its intercept
\* and slope as well as its cached length and sums, as Linreg::new(window
\* length) followed by update_from on the same window does, whatever length
\* it was constructed with and whatever it fitted before.
C27_FitDependsOnWindowOnly ==
    (Updated /\ Len(lrData) >= 1) =>
        LET ref == update_from(LinregNew(Len(lrData)), lrData)
        IN  /\ lr.intercept = ref.intercept
            /\ lr.slope = ref.slope
            /\ lr = ref

\* C27 witness: a fit of a sloped window by a Linreg whose cached sums were
\* those of another length, left by an earlier call
C27_Witness ==
    /\ Updated
    /\ lrRefit
    /\ Len(lrData) >= 3
    /\ lr.n = Len(lrData)
    /\ lr.slope.den # 0
    /\ lr.slope.num # 0
    /\ lr.intercept.num # 0
    /\ lr = update_from(LinregNew(Len(lrData)), lrData)

(***************************************************************************)
(* Beat detector: constant input.                                          *)
(***************************************************************************)
\* C28: a constant input, fed for any number of samples to a freshly
\* constructed or reset detector, never raises the beat-detected flag qs
\* (saw_start_of_beat never returns true), never computes a BPM and leaves
\* get_beats_per_minute at 0.
C28_ConstantInputNoBeat ==
    /\ ~ps.qs
    /\ ~ret
    /\ get_beats_per_minute(ps) = 0
    /\ Sampled => ~ev.computed

\* C28 witness: a constant input above thresh, fed to a reset detector that
\* had reported a rate, starts a beat again after a timeout reset, as a first
\* beat
C28_Witness ==
    /\ Sampled
    /\ ev.beat
    /\ ev.early
    /\ canonOn
    /\ hist.starts = 2
    /\ ps.signal > ps.thresh
    /\ ps.pulse
    /\ ps.rate[0] > 0
    /\ ~ps.qs
    /\ get_beats_per_minute(ps) = 0

(***************************************************************************)
(* Beat detector: arithmetic safety of peak, trough and threshold.         *)
(***************************************************************************)
\* C29: in every reachable state T <= P; for samples in 0..4095, in every
\* call that ends the pulse P - T does not underflow, P + T does not
\* overflow u16, and the new thresh (P + T) / 2 lies between T and P.
C29_TroughBelowPeak ==
    /\ ps.t <= ps.p
    /\ ps.p <= ESP32_ADC_RESOLUTION
    /\ (Sampled /\ ps.signal < pre.thresh /\ pre.pulse) =>
           LET th == (pre.p + RefinedT) \div 2
           IN  /\ pre.p - RefinedT >= 0
               /\ pre.p + RefinedT < U16
               /\ RefinedT <= th
               /\ th <= pre.p
               /\ CallN <= 2500 =>
                      /\ ps.amp = pre.p - RefinedT
                      /\ ps.thresh = th
                      /\ ps.t <= ps.thresh
                      /\ ps.thresh <= ps.p

\* C29 witness: a pulse end between a peak above and a trough below the seed
\* values, re-centring thresh strictly between them
C29_Witness ==
    /\ Sampled
    /\ ev.ended
    /\ CallN <= 2500
    /\ pre.p > ESP32_ADC_RESOLUTION \div 2
    /\ RefinedT < ESP32_ADC_RESOLUTION \div 2
    /\ ps.amp = pre.p - RefinedT
    /\ ps.thresh > RefinedT
    /\ ps.thresh < pre.p
    /\ ps.thresh # pre.thresh

(***************************************************************************)
(* Beat detector: the u32 clock.                                           *)
(***************************************************************************)
\* C30 as stated: in every reachable state last_beat_time <= sample_counter
\* as u32 values; no call overflows or underflows its u32 arithmetic; in
\* every call n is at most 2502 and fits u16; ibi is 750 or in 252..2502.
C30_ElapsedTimeBounded ==
    /\ op # "panic"
    /\ IF (ps.last_beat_time < 0) = (ps.sample_counter < 0)
       THEN ps.last_beat_time <= ps.sample_counter
       ELSE ps.last_beat_time >= 0
    /\ Sampled => (CallN \in 0..2502 /\ ps.n = CallN)
    /\ ps.ibi = 750 \/ ps.ibi \in 252..2502

(***************************************************************************)
(* The telemetry hand-off of main.rs.                                      *)
(***************************************************************************)
\* C31 as stated: whenever main sends a HeartRate packet because
\* data_to_send was non-zero, the window the packet was computed from
\* already contains the sample whose arrival set data_to_send, under every
\* interleaving of heart_sensing_task and the main loop.
C31_SentWindowHasFlaggingSample ==
    sent # <<>> => sent[1] >= sent[2]

(***************************************************************************)
(* The mutexes of main.rs.                                                 *)
(***************************************************************************)
\* C32: the tasks never deadlock on the shared mutexes: in no reachable state
\* is there a set of tasks each of which waits for a mutex held by a task of
\* the set.
C32_NoLockCycle ==
    LET Wanted(t) == Script[t][lockPc[t]][2]
        Waiting(t) == /\ Script[t][lockPc[t]][1] = "lock"
                      /\ holder[Wanted(t)] # "none"
    IN  \A S \in SUBSET DOMAIN Script :
            S # {} => \E t \in S : ~(Waiting(t) /\ holder[Wanted(t)] \in S)

\* C32 witness: eth_reconnect_task holds eth and ip_info and waits for
\* status, held by a task that itself waits for the I2C bus, held by a third
C32_Witness ==
    /\ holder["eth"] = "eth"
    /\ holder["ip_info"] = "eth"
    /\ lockPc["eth"] = 4
    /\ holder["status"] \in {"main", "sense"}
    /\ Script[holder["status"]][lockPc[holder["status"]]] = <<"lock", "i2c">>
    /\ holder["i2c"] \notin {"none", holder["status"]}

(***************************************************************************)
(* The firmware update of ota.rs.                                          *)
(***************************************************************************)
\* C33 as stated: on a short download (the response delivers fewer bytes than
\* the content length it declared) the function eventually stops reading,
\* aborts the update and returns.
C33_ShortDownloadReturns ==
    (otaPc = "loop" /\ total_read_len + body < file_size)
        ~> (otaPc = "returned" /\ work \in {"aborted", "failed"})

\* C34 as stated: the function returns Ok only if every chunk was written and
\* work.complete succeeded, so the handler of command 1 goes on to restart()
\* only after a completed update.
C34_OkOnlyIfCompleted ==
    /\ otaRet = "Ok" => (work = "completed" /\ written >= file_size)
    /\ otaPc = "restart" => work = "completed"

====
